---- MODULE Spec2Model ----
(***************************************************************************)
(* Model of the Vulnera LSP adapter: document store, workspace-batched     *)
(* analysis scheduler and diagnostic publication (src/src/state.rs,        *)
(* src/src/lsp.rs).                                                        *)
(*                                                                         *)
(* Strings the code inspects character by character (URI paths, file       *)
(* names) are sequences of one-character strings.  Option<T> is a          *)
(* sequence of length 0 (None) or 1 (Some).                                *)
(*                                                                         *)
(* Time is counted in ticks; the debounce sleep lasts DebounceMs ticks.    *)
(* The HTTP round trip and a sleep take any number of ticks.  Code that    *)
(* is executing takes its steps between two ticks, in any interleaving     *)
(* with the other threads; a notification is taken up by its handler at    *)
(* the latest a tick after it arrived.                                     *)
(***************************************************************************)
EXTENDS Integers, Sequences, FiniteSets, TLC

\* Number of LSP notifications the client sends in a session.
MaxEvents == 2

\* Number of LSP notifications in a session on one workspace.
MaxBurst == 3

\* Number of LSP notifications in a session on one document that is opened,
\* closed and opened again (at least MaxBurst: it sizes the tables of
\* handlers and tasks).
MaxReopen == 4

\* Config::debounce_ms, in clock ticks.
DebounceMs == 2

\* Number of shards of the DashMap `documents` that are told apart.
NumShards == 2

None == <<>>
Some(x) == <<x>>
IsSome(o) == Len(o) = 1
Unwrap(o) == o[1]

(***************************************************************************)
(* The documents of the session.                                           *)
(***************************************************************************)
PkgJson == "file:///w/package.json"
CargoToml == "file:///w/Cargo.toml"
NotesMd == "file:///w/notes.md"
GoMod == "file:///v/go.mod"

\* A document that has not been saved to a file: its URI has no path
\* segments, so the server has no file name for it.
Untitled == "untitled:Untitled-1"

\* Manifests directly under the root directory and in a directory below /w:
\* they appear only in the calls that compute workspace keys.
RootPkgJson == "file:///package.json"
RootCargoToml == "file:///Cargo.toml"
NestedPkgJson == "file:///w/sub/package.json"

\* The documents with a file name.
FileDocs == {PkgJson, CargoToml, NotesMd, GoMod}

URIS == FileDocs \cup {Untitled}

\* Url::path()
UriPath(u) ==
    CASE u = PkgJson -> <<"/","w","/","p","a","c","k","a","g","e",".","j","s","o","n">>
      [] u = CargoToml -> <<"/","w","/","C","a","r","g","o",".","t","o","m","l">>
      [] u = NotesMd -> <<"/","w","/","n","o","t","e","s",".","m","d">>
      [] u = GoMod -> <<"/","v","/","g","o",".","m","o","d">>
      [] u = Untitled -> <<"U","n","t","i","t","l","e","d","-","1">>
      [] u = RootPkgJson -> <<"/","p","a","c","k","a","g","e",".","j","s","o","n">>
      [] u = RootCargoToml -> <<"/","C","a","r","g","o",".","t","o","m","l">>
      [] u = NestedPkgJson -> <<"/","w","/","s","u","b","/","p","a","c","k","a","g","e",".","j","s","o","n">>

\* The languageId the editor announces for a document in didOpen.
LanguageOf(u) ==
    CASE u = PkgJson -> "json"
      [] u = CargoToml -> "toml"
      [] u = NotesMd -> "markdown"
      [] u = GoMod -> "go"
      [] u = Untitled -> "plaintext"
      [] u = RootPkgJson -> "json"
      [] u = RootCargoToml -> "toml"
      [] u = NestedPkgJson -> "json"

\* Positions of '/' in a string.
SlashPositions(s) == {i \in 1..Len(s) : s[i] = "/"}

Max(S) == CHOOSE x \in S : \A y \in S : y <= x

\* uri.path_segments().and_then(|mut segments| segments.next_back())
LastPathSegment(u) ==
    LET p == UriPath(u)
        sl == SlashPositions(p)
    IN  IF sl = {} THEN None ELSE Some(SubSeq(p, Max(sl) + 1, Len(p)))

UpperLetters == <<"A","B","C","D","E","F","G","H","I","J","K","L","M","N","O","P","Q","R","S","T","U","V","W","X","Y","Z">>
LowerLetters == <<"a","b","c","d","e","f","g","h","i","j","k","l","m","n","o","p","q","r","s","t","u","v","w","x","y","z">>

\* str::to_ascii_lowercase
ToAsciiLowercase(s) ==
    [i \in 1..Len(s) |->
        IF \E j \in 1..Len(UpperLetters) : UpperLetters[j] = s[i]
        THEN LowerLetters[CHOOSE j \in 1..Len(UpperLetters) : UpperLetters[j] = s[i]]
        ELSE s[i]]

\* str::ends_with
EndsWith(s, suf) ==
    /\ Len(suf) <= Len(s)
    /\ SubSeq(s, Len(s) - Len(suf) + 1, Len(s)) = suf

NpmNames ==
    { <<"p","a","c","k","a","g","e",".","j","s","o","n">>,
      <<"p","a","c","k","a","g","e","-","l","o","c","k",".","j","s","o","n">>,
      <<"y","a","r","n",".","l","o","c","k">>,
      <<"p","n","p","m","-","l","o","c","k",".","y","a","m","l">> }
PypiNames ==
    { <<"r","e","q","u","i","r","e","m","e","n","t","s",".","t","x","t">>,
      <<"p","y","p","r","o","j","e","c","t",".","t","o","m","l">>,
      <<"p","i","p","f","i","l","e">>,
      <<"p","i","p","f","i","l","e",".","l","o","c","k">>,
      <<"p","o","e","t","r","y",".","l","o","c","k">>,
      <<"u","v",".","l","o","c","k">> }
CargoNames ==
    { <<"c","a","r","g","o",".","t","o","m","l">>,
      <<"c","a","r","g","o",".","l","o","c","k">> }
GoNames ==
    { <<"g","o",".","m","o","d">>,
      <<"g","o",".","s","u","m">> }
MavenNames ==
    { <<"p","o","m",".","x","m","l">>,
      <<"b","u","i","l","d",".","g","r","a","d","l","e">>,
      <<"b","u","i","l","d",".","g","r","a","d","l","e",".","k","t","s">>,
      <<"g","r","a","d","l","e",".","l","o","c","k","f","i","l","e">> }
PackagistNames ==
    { <<"c","o","m","p","o","s","e","r",".","j","s","o","n">>,
      <<"c","o","m","p","o","s","e","r",".","l","o","c","k">> }

EndsWithAny(name, sufs) == \E suf \in sufs : EndsWith(name, suf)

\* The language-id fallback of detect_ecosystem (taken only without a file name).
LanguageEcosystem(language_id) ==
    IF ~IsSome(language_id) THEN "unknown"
    ELSE LET l == Unwrap(language_id)
         IN  CASE l \in {"javascript", "typescript"} -> "npm"
               [] l = "python" -> "pypi"
               [] l = "rust" -> "cargo"
               [] l = "go" -> "go"
               [] l \in {"java", "kotlin"} -> "maven"
               [] l = "php" -> "packagist"
               [] OTHER -> "unknown"

\* fn detect_ecosystem(file_name: &Option<String>, language_id: Option<&str>)
detect_ecosystem(file_name, language_id) ==
    IF IsSome(file_name)
    THEN LET name == ToAsciiLowercase(Unwrap(file_name))
         IN  IF EndsWithAny(name, NpmNames) THEN "npm"
             ELSE IF EndsWithAny(name, PypiNames) THEN "pypi"
             ELSE IF EndsWithAny(name, CargoNames) THEN "cargo"
             ELSE IF EndsWithAny(name, GoNames) THEN "go"
             ELSE IF EndsWithAny(name, MavenNames) THEN "maven"
             ELSE IF EndsWithAny(name, PackagistNames) THEN "packagist"
             ELSE "unknown"
    ELSE LanguageEcosystem(language_id)

\* char::is_whitespace: the characters with the Unicode property White_Space
\* (U+0009..U+000D, U+0020, U+0085, U+00A0, U+1680, U+2000..U+200A, U+2028,
\* U+2029, U+202F, U+205F, U+3000).  A character beyond U+00FF is written
\* as the name of its code point.
Whitespace ==
    {"\t", "\n", "", "\f", "\r", " ", "", " ",
     "U+1680", "U+2000", "U+2001", "U+2002", "U+2003", "U+2004", "U+2005", "U+2006",
     "U+2007", "U+2008", "U+2009", "U+200A", "U+2028", "U+2029", "U+202F", "U+205F",
     "U+3000"}

\* value.trim().is_empty()
TrimIsEmpty(s) == \A i \in 1..Len(s) : s[i] \in Whitespace

\* A variant that never splits the candidate.
workspace_key_for_path_WholePath(workspace_path, uri) ==
    IF IsSome(workspace_path) /\ ~TrimIsEmpty(Unwrap(workspace_path))
    THEN Unwrap(workspace_path)
    ELSE UriPath(uri)

\* A variant that splits the candidate at its first `/`.
workspace_key_for_path_FirstSlash(workspace_path, uri) ==
    LET candidate ==
            IF IsSome(workspace_path) /\ ~TrimIsEmpty(Unwrap(workspace_path))
            THEN Unwrap(workspace_path)
            ELSE UriPath(uri)
        sl == {i \in SlashPositions(candidate) : i > 1}
    IN  IF sl # {}
        THEN SubSeq(candidate, 1, (CHOOSE i \in sl : \A j \in sl : i <= j) - 1)
        ELSE candidate

\* fn workspace_key_for_path(workspace_path: Option<&str>, uri: &Url) -> String
workspace_key_for_path(workspace_path, uri) ==
    LET candidate ==
            IF IsSome(workspace_path) /\ ~TrimIsEmpty(Unwrap(workspace_path))
            THEN Unwrap(workspace_path)
            ELSE UriPath(uri)
        sl == SlashPositions(candidate)
    IN  IF sl # {} /\ Max(sl) > 1
        THEN SubSeq(candidate, 1, Max(sl) - 1)
        ELSE candidate

\* The workspace keys the session's documents can have.
KEYS == {workspace_key_for_path(Some(UriPath(u)), u) : u \in URIS}

EventIds == 1..MaxReopen


(***************************************************************************)
(* State.                                                                  *)
(*   documents, analysis, pending, dirty_by_workspace: the four maps of    *)
(*     ServerState (a missing entry is None).                              *)
(*   handlers[n]: the n-th notification and the place its LSP handler has  *)
(*     reached.  Handlers start in arrival order on the server task and    *)
(*     interleave with each other only at their awaits.                    *)
(*   tasks[n]: the task spawned by handler n (tokio::spawn), running on    *)
(*     the worker threads in parallel with the handlers.                   *)
(*   handlers[n].age: the ticks (saturating at DebounceMs) since the       *)
(*     schedule_analysis call of handler n put its URI in a dirty set.     *)
(*   client_open: the documents the client holds open.                     *)
(*   published[u]: the publishDiagnostics notifications sent for u.        *)
(*   http_log: the analysis requests sent, in order.                       *)
(*   since_event, burst: the observer's clock, counting ticks (saturating  *)
(*     at DebounceMs) since the last notification arrived, and whether     *)
(*     every notification so far arrived less than DebounceMs after the    *)
(*     one before.                                                         *)
(*   shard[u]: the shard of `documents` the URI u hashes to, 0 until it   *)
(*     is drawn.                                                           *)
(*   input, output: the arguments and the result of a call of one of the   *)
(*     pure functions (severity mapping, version locator, quick-fix edit); *)
(*     no call is made in the sessions of the server.                      *)
(***************************************************************************)
VARIABLES documents, analysis, pending, dirty_by_workspace,
          handlers, tasks, nevents, client_open, published, http_log,
          since_event, burst, shard, input, output

vars == <<documents, analysis, pending, dirty_by_workspace,
          handlers, tasks, nevents, client_open, published, http_log,
          since_event, burst, shard, input, output>>

NoHandler ==
    [kind |-> "none", uri |-> "", with_text |-> FALSE, in_range |-> TRUE, pc |-> "none",
     key |-> None, version |-> 0, language_id |-> None, waited |-> FALSE, age |-> 0]

NoTask ==
    [pc |-> "none", key |-> None, aborted |-> FALSE, timer |-> 0,
     snaps |-> <<>>, results |-> <<>>, by_id |-> FALSE, i |-> 0,
     affected |-> {}, failed_docs |-> {}, err |-> "", npub |-> 0, shown |-> 0,
     early |-> FALSE, uris |-> <<>>, shards |-> <<>>, held |-> None]

ServerInit ==
    /\ documents = [u \in URIS |-> None]
    /\ analysis = [u \in URIS |-> None]
    /\ pending = [k \in KEYS |-> None]
    /\ dirty_by_workspace = [k \in KEYS |-> None]
    /\ handlers = [n \in EventIds |-> NoHandler]
    /\ tasks = [n \in EventIds |-> NoTask]
    /\ nevents = 0
    /\ client_open = {}
    /\ published = [u \in URIS |-> <<>>]
    /\ http_log = <<>>
    /\ since_event = DebounceMs
    /\ burst = TRUE
    /\ shard = [u \in URIS |-> 0]

\* No pure function is being called.
NoCall == [fn |-> "none"]

Init ==
    /\ ServerInit
    /\ input = NoCall
    /\ output = None

(***************************************************************************)
(* Helpers on the maps.                                                    *)
(***************************************************************************)
\* The key schedule_analysis, remove_document and the failure path compute
\* for a stored snapshot.
\* (The key of a snapshot whose workspace path is the path of its URI, as
\* the handlers build it, is computed once per URI.)
KeyOfPath == [u \in URIS |-> workspace_key_for_path(Some(UriPath(u)), u)]

KeyOfSnapshot(snap) ==
    IF snap.uri \in URIS /\ snap.workspace_path = Some(UriPath(snap.uri))
    THEN KeyOfPath[snap.uri]
    ELSE workspace_key_for_path(snap.workspace_path, snap.uri)

\* A task that can still run: spawned and neither finished nor cancelled.
Live(t) == t.pc \notin {"none", "done", "cancelled"}

\* Places where a task is suspended for certain (the timer, the HTTP round
\* trip): an abort cancels it there at once.
Suspended(t) == t.pc \in {"sleep", "http"}

\* Places where a task awaits the config lock or the LSP client
\* (publishDiagnostics, showMessage, logMessage): the await may or may not
\* yield, so an aborted task there either stops or goes on.
MayYield(t) == t.pc \in {"drained", "resp_log", "pub", "fail_await", "fail_show", "fail_log"}

\* A task that is executing code (not parked at a timer or a round trip):
\* it takes its next step before the clock ticks.
Running(t) ==
    \/ t.pc \in {"reading", "drained", "resp_log", "ins", "fin", "failing", "fail_pub"}
    \/ (t.aborted /\ Live(t))

Finished(t) ==
    [t EXCEPT !.snaps = <<>>, !.results = <<>>, !.i = 0, !.affected = {}, !.timer = 0,
              !.uris = <<>>, !.shards = <<>>, !.held = None]

\* JoinHandle::abort on the task with this id.
Abort(ts, id) ==
    IF ~Live(ts[id]) THEN ts
    ELSE IF Suspended(ts[id])
         THEN [ts EXCEPT ![id] = [Finished(ts[id]) EXCEPT !.pc = "cancelled", !.aborted = TRUE]]
         ELSE [ts EXCEPT ![id].aborted = TRUE]

\* A variant that aborts the pending task of every workspace key.
AbortPending_AnyKey(ts, pend, key) ==
    [n \in EventIds |->
        IF \E k \in KEYS : pend[k] = Some(n) THEN Abort(ts, n)[n] ELSE ts[n]]

\* if let Some((_, handle)) = self.pending.remove(&key) { handle.abort(); }
AbortPending(ts, pend, key) ==
    IF IsSome(pend[key]) THEN Abort(ts, Unwrap(pend[key])) ELSE ts

\* client.publish_diagnostics(uri, diagnostics, version)
\* (src, id): who published, "task" n or the handler of notification n.
Publish(pub, uri, diagnostics, version, src, id) ==
    [pub EXCEPT ![uri] = Append(@, [diagnostics |-> diagnostics, version |-> version,
                                    src |-> src, id |-> id])]

\* The places of a handler between two operations on the maps with no await
\* in between: the handler is executing on the thread of the server task.
HandlerSync == {"stored", "enqueued", "spawned", "rm_cache", "rm_dirty", "rm_set", "rm_pending"}

\* No handler is between two awaits or parked in a lock: the server task is
\* free to poll another handler.
HandlerThreadFree ==
    \A n \in EventIds : handlers[n].pc \notin (HandlerSync \cup {"blocked"})

\* Handler n is the next to start: the earlier notifications have been
\* taken up.
HandlerReady(n, kind) ==
    /\ handlers[n].pc = "arrived"
    /\ handlers[n].kind = kind
    /\ \A m \in 1..(n - 1) : handlers[m].pc # "arrived"
    /\ HandlerThreadFree

\* DocumentSnapshot as the handlers build it.
Snapshot(uri, text, version, language_id) ==
    [uri |-> uri, text |-> text, version |-> version, language_id |-> language_id,
     file_name |-> LastPathSegment(uri),
     workspace_path |-> Some(UriPath(uri)),
     ecosystem |-> detect_ecosystem(LastPathSegment(uri), language_id)]

\* ServerState::upsert_document
upsert_document(docs, snapshot) == [docs EXCEPT ![snapshot.uri] = Some(snapshot)]

\* schedule_analysis lines 103-111: the Ref that self.documents.get(&uri)
\* returns is alive in the whole match arm, so a handler that awaits the
\* empty publication of a document of unknown ecosystem holds the read lock
\* of the shard of `documents` the URI hashes to.
HoldsDocumentRef(m, uri) == handlers[m].pc = "unk_pub" /\ handlers[m].uri = uri

\* DashMap::new(): the map hashes its keys with a RandomState, so the shard
\* of a URI differs from run to run.  It is drawn when it first matters
\* (a Ref is taken on the URI, the URI is written while a Ref is held, or
\* the failure path iterates over the map); the shards being
\* interchangeable until one of them has been visited, the first URI drawn
\* before that is in shard 1.
Interchangeable(sh) ==
    /\ \A v \in URIS : sh[v] = 0
    /\ \A n \in EventIds : tasks[n].shards = <<>>

ShardChoices(sh, uri) ==
    IF sh[uri] # 0 THEN {sh}
    ELSE IF Interchangeable(sh) THEN {[sh EXCEPT ![uri] = 1]}
    ELSE {[sh EXCEPT ![uri] = s] : s \in 1..NumShards}

\* The shards as they are known once handlers write the entry of `uri`.
ShardsAtWrite(uri) ==
    IF \E m \in EventIds : handlers[m].pc = "unk_pub"
    THEN ShardChoices(shard, uri) ELSE {shard}

\* A suspended handler holds a Ref in the shard of `uri`.
DocumentLocked(sh, uri) ==
    \E m \in EventIds, v \in URIS : HoldsDocumentRef(m, v) /\ sh[v] = sh[uri] /\ sh[uri] # 0

\* DashMap::insert or DashMap::remove on a locked shard: the handler parks
\* its thread, the thread of the server task, in the write lock.
BlockOnStore(n) ==
    /\ handlers' = [handlers EXCEPT ![n].pc = "blocked", ![n].waited = FALSE]
    /\ UNCHANGED documents

(***************************************************************************)
(* The client.  It opens a document before changing, saving or closing it  *)
(* (LSP document synchronisation).  The n-th notification carries text n;  *)
(* didOpen and didChange carry version n (the client's increasing version  *)
(* counter).  A didChange carries one change: a full replacement or an     *)
(* edit whose range resolves in the stored text (in_range), giving text n, *)
(* or an edit whose range does not resolve there, whose fragment is        *)
(* ChangeText(n).                                                          *)
(***************************************************************************)
NotificationKinds == {"didOpen", "didChange", "didSave", "didClose"}

\* The client writes its next notification to the server's stdin; a
\* didOpen announces the languageId of the document.
Notify(limit, kind, uri, with_text, in_range, language_id) ==
    /\ nevents < limit
    /\ IF kind = "didOpen" THEN uri \notin client_open ELSE uri \in client_open
    /\ kind # "didSave" => with_text
    /\ kind # "didChange" => in_range
    /\ nevents' = nevents + 1
    /\ client_open' = CASE kind = "didOpen" -> client_open \cup {uri}
                        [] kind = "didClose" -> client_open \ {uri}
                        [] OTHER -> client_open
    /\ handlers' = [handlers EXCEPT ![nevents + 1] =
            [NoHandler EXCEPT !.kind = kind, !.uri = uri, !.with_text = with_text,
                              !.in_range = in_range, !.pc = "arrived",
                              !.language_id = IF kind = "didOpen" THEN Some(language_id)
                                              ELSE None]]
    /\ since_event' = 0
    /\ burst' = (burst /\ (nevents = 0 \/ since_event < DebounceMs))
    /\ UNCHANGED <<documents, analysis, pending, dirty_by_workspace, tasks, published,
                   http_log, shard, input, output>>

\* A notification on a document whose languageId the editor derives from
\* its file.
Arrive(limit, kind, uri, with_text, in_range) ==
    Notify(limit, kind, uri, with_text, in_range, LanguageOf(uri))

\* The client opens a document under the language the user has chosen for
\* it.
ArriveOpen(limit, uri, language_id) ==
    Notify(limit, "didOpen", uri, TRUE, TRUE, language_id)

(***************************************************************************)
(* LSP handlers (src/src/lsp.rs) and the part of schedule_analysis they    *)
(* run.  Each step is one operation on one of the maps (each map has its   *)
(* own locks): the tasks, which run on the worker threads, may take their  *)
(* steps between any two of them.                                          *)
(***************************************************************************)
StoreFrame == <<nevents, client_open, since_event, burst, input, output>>

HandlerFrame == <<nevents, client_open, since_event, burst, input, output, shard>>

\* self.state.upsert_document(snapshot) by handler n: the snapshot is
\* stored, or the handler parks in the lock of the shard.
StoreOrBlock(n, snapshot) ==
    \E sh \in ShardsAtWrite(snapshot.uri) :
        /\ shard' = sh
        /\ IF DocumentLocked(sh, snapshot.uri) THEN BlockOnStore(n)
           ELSE /\ documents' = upsert_document(documents, snapshot)
                /\ handlers' = [handlers EXCEPT ![n].pc = "stored", ![n].waited = FALSE]

\* self.dirty_by_workspace.entry(key).or_insert_with(HashSet::new).insert(uri)
DirtyInsert(dirty, key, uri) ==
    [dirty EXCEPT ![key] = Some((IF IsSome(@) THEN Unwrap(@) ELSE {}) \cup {uri})]

\* A variant without the branch for documents of unknown ecosystem.
schedule_analysis_EnqueueUnknown(n, uri) ==
    IF ~IsSome(documents[uri])
    THEN /\ handlers' = [handlers EXCEPT ![n].pc = "done", ![n].waited = FALSE]
         /\ UNCHANGED <<analysis, dirty_by_workspace, shard>>
    ELSE LET snapshot == Unwrap(documents[uri])
             key == KeyOfSnapshot(snapshot)
         IN  /\ dirty_by_workspace' = DirtyInsert(dirty_by_workspace, key, uri)
             /\ handlers' = [handlers EXCEPT ![n].pc = "enqueued",
                                             ![n].key = Some(key),
                                             ![n].version = snapshot.version,
                                             ![n].waited = FALSE]
             /\ UNCHANGED <<analysis, shard>>

\* ServerState::schedule_analysis, called by handler n: lines 103-120, up
\* to the removal of the pending handle (known ecosystem) or the await of
\* the empty publication (unknown), where the handler keeps the Ref of the
\* document.
schedule_analysis(n, uri) ==
    IF ~IsSome(documents[uri])
    THEN /\ handlers' = [handlers EXCEPT ![n].pc = "done", ![n].waited = FALSE]
         /\ UNCHANGED <<analysis, dirty_by_workspace, shard>>
    ELSE LET snapshot == Unwrap(documents[uri])
             key == KeyOfSnapshot(snapshot)
         IN  IF snapshot.ecosystem = "unknown"
             THEN /\ analysis' = [analysis EXCEPT ![uri] = None]
                  /\ handlers' = [handlers EXCEPT ![n].pc = "unk_pub",
                                                  ![n].version = snapshot.version,
                                                  ![n].waited = FALSE]
                  /\ shard' \in ShardChoices(shard, uri)
                  /\ UNCHANGED dirty_by_workspace
             ELSE /\ dirty_by_workspace' = DirtyInsert(dirty_by_workspace, key, uri)
                  /\ handlers' = [handlers EXCEPT ![n].pc = "enqueued",
                                                  ![n].key = Some(key),
                                                  ![n].version = snapshot.version,
                                                  ![n].waited = FALSE]
                  /\ UNCHANGED <<analysis, shard>>

\* VulneraLanguageServer::did_open, up to upsert_document
did_open(n) ==
    LET uri == handlers[n].uri
    IN  /\ HandlerReady(n, "didOpen")
        /\ StoreOrBlock(n, Snapshot(uri, n, n, handlers[n].language_id))
        /\ UNCHANGED <<analysis, pending, dirty_by_workspace, tasks, published, http_log>>
        /\ UNCHANGED StoreFrame

\* The text field of the change in notification n when the change is an
\* edit of a range: the fragment, not the document.
ChangeText(n) == 0 - n

\* VulneraLanguageServer::did_change, up to upsert_document: when
\* apply_content_changes succeeds the snapshot is stored at once; when it
\* fails the handler keeps the snapshot it read (its language_id) and
\* awaits log_message (lines 109-118).
did_change(n) ==
    LET uri == handlers[n].uri
        previous == documents[uri]
        language_id == IF IsSome(previous) THEN Unwrap(previous).language_id ELSE None
    IN  /\ HandlerReady(n, "didChange")
        /\ IF handlers[n].in_range
           THEN StoreOrBlock(n, Snapshot(uri, n, n, language_id))
           ELSE /\ handlers' = [handlers EXCEPT ![n].pc = "chg_log",
                                                ![n].language_id = language_id,
                                                ![n].waited = FALSE]
                /\ UNCHANGED <<documents, shard>>
        /\ UNCHANGED <<analysis, pending, dirty_by_workspace, tasks, published, http_log>>
        /\ UNCHANGED StoreFrame

\* did_change lines 119-144 after a failed apply: the text falls back to
\* the text of the last change, and the snapshot is stored with the
\* version of the notification.
HandlerChangeFallback(n) ==
    LET h == handlers[n]
    IN  /\ h.pc = "chg_log"
        /\ HandlerThreadFree
        /\ StoreOrBlock(n, Snapshot(h.uri, ChangeText(n), n, h.language_id))
        /\ UNCHANGED <<analysis, pending, dirty_by_workspace, tasks, published, http_log>>
        /\ UNCHANGED StoreFrame

\* VulneraLanguageServer::did_save; with_text: params.text is Some, and the
\* step ends with upsert_document; without a text the handler calls
\* schedule_analysis at once.
did_save(n) ==
    LET uri == handlers[n].uri
        previous == documents[uri]
        version == IF IsSome(previous) THEN Unwrap(previous).version ELSE 0
        language_id == IF IsSome(previous) THEN Unwrap(previous).language_id ELSE None
    IN  /\ HandlerReady(n, "didSave")
        /\ IF handlers[n].with_text
           THEN /\ StoreOrBlock(n, Snapshot(uri, n, version, language_id))
                /\ UNCHANGED <<analysis, dirty_by_workspace>>
           ELSE /\ schedule_analysis(n, uri)
                /\ UNCHANGED documents
        /\ UNCHANGED <<pending, tasks, published, http_log>>
        /\ UNCHANGED StoreFrame

\* state.schedule_analysis(uri).await in did_open, did_change and did_save,
\* after the snapshot was stored.
HandlerSchedule(n) ==
    /\ handlers[n].pc = "stored"
    /\ schedule_analysis(n, handlers[n].uri)
    /\ UNCHANGED <<documents, pending, tasks, published, http_log>>
    /\ UNCHANGED StoreFrame

\* schedule_analysis lines 122-124: the pending handle of the key is removed
\* and aborted; the handler then awaits the config lock (line 126).
HandlerAbortPending(n) ==
    LET h == handlers[n]
        key == Unwrap(h.key)
    IN  /\ h.pc = "enqueued"
        /\ tasks' = AbortPending(tasks, pending, key)
        /\ pending' = [pending EXCEPT ![key] = None]
        /\ handlers' = [handlers EXCEPT ![n].pc = "cfg_await"]
        /\ UNCHANGED <<documents, analysis, dirty_by_workspace, published, http_log>>
        /\ UNCHANGED HandlerFrame

\* schedule_analysis lines 126-180: tokio::spawn hands the task, asleep for
\* debounce_ms, to the worker threads; its handle is not yet recorded.
HandlerSpawnTask(n) ==
    LET h == handlers[n]
        key == Unwrap(h.key)
    IN  /\ h.pc = "cfg_await"
        /\ HandlerThreadFree
        /\ tasks' = [tasks EXCEPT ![n] = [NoTask EXCEPT !.pc = "sleep", !.key = Some(key),
                                                        !.timer = DebounceMs]]
        /\ handlers' = [handlers EXCEPT ![n].pc = "spawned"]
        /\ UNCHANGED <<documents, analysis, pending, dirty_by_workspace, published, http_log>>
        /\ UNCHANGED HandlerFrame

\* schedule_analysis line 182: self.pending.insert(workspace_key, handle)
HandlerRecordHandle(n) ==
    LET h == handlers[n]
        key == Unwrap(h.key)
    IN  /\ h.pc = "spawned"
        /\ pending' = [pending EXCEPT ![key] = Some(n)]
        /\ handlers' = [handlers EXCEPT ![n].pc = "done"]
        /\ UNCHANGED <<documents, analysis, dirty_by_workspace, tasks, published, http_log>>
        /\ UNCHANGED HandlerFrame

\* schedule_analysis lines 107-110: the empty publication for a document of
\* unknown ecosystem.
HandlerUnknownPublish(n) ==
    LET h == handlers[n]
    IN  /\ h.pc = "unk_pub"
        /\ HandlerThreadFree
        /\ published' = Publish(published, h.uri, <<>>, Some(h.version), "schedule", n)
        /\ handlers' = [handlers EXCEPT ![n].pc = "done"]
        /\ UNCHANGED <<documents, analysis, pending, dirty_by_workspace, tasks, http_log>>
        /\ UNCHANGED HandlerFrame

\* VulneraLanguageServer::did_close, up to remove_document lines 80-85:
\* the workspace key is computed from the stored snapshot and the snapshot
\* is removed.
did_close(n) ==
    LET uri == handlers[n].uri
        workspace_key == IF IsSome(documents[uri])
                         THEN Some(KeyOfSnapshot(Unwrap(documents[uri]))) ELSE None
    IN  /\ HandlerReady(n, "didClose")
        /\ \E sh \in ShardsAtWrite(uri) :
            /\ shard' = sh
            /\ IF DocumentLocked(sh, uri) THEN BlockOnStore(n)
               ELSE /\ documents' = [documents EXCEPT ![uri] = None]
                    /\ handlers' = [handlers EXCEPT ![n].pc = "rm_cache",
                                                    ![n].key = workspace_key,
                                                    ![n].waited = FALSE]
        /\ UNCHANGED <<analysis, pending, dirty_by_workspace, tasks, published, http_log>>
        /\ UNCHANGED StoreFrame

\* remove_document line 86: self.analysis.remove(uri)
remove_document_analysis(n) ==
    LET h == handlers[n]
    IN  /\ h.pc = "rm_cache"
        /\ analysis' = [analysis EXCEPT ![h.uri] = None]
        /\ handlers' = [handlers EXCEPT ![n].pc =
                IF IsSome(h.key) THEN "rm_dirty" ELSE "close_pub"]
        /\ UNCHANGED <<documents, pending, dirty_by_workspace, tasks, published, http_log>>
        /\ UNCHANGED HandlerFrame

\* A variant that goes on to abort the pending task whenever the key has a
\* dirty set, other members left in it or not.
remove_document_entry_AlwaysAbort(n) ==
    LET h == handlers[n]
        key == Unwrap(h.key)
    IN  /\ h.pc = "rm_dirty"
        /\ IF IsSome(dirty_by_workspace[key])
           THEN LET entry == Unwrap(dirty_by_workspace[key]) \ {h.uri}
                IN  /\ dirty_by_workspace' = [dirty_by_workspace EXCEPT ![key] = Some(entry)]
                    /\ handlers' = [handlers EXCEPT ![n].pc =
                            IF entry = {} THEN "rm_set" ELSE "rm_pending"]
           ELSE /\ handlers' = [handlers EXCEPT ![n].pc = "close_pub"]
                /\ UNCHANGED dirty_by_workspace
        /\ UNCHANGED <<documents, analysis, pending, tasks, published, http_log>>
        /\ UNCHANGED HandlerFrame

\* A variant that leaves the dirty set as it is.
remove_document_entry_KeepDirty(n) ==
    LET h == handlers[n]
    IN  /\ h.pc = "rm_dirty"
        /\ handlers' = [handlers EXCEPT ![n].pc = "close_pub"]
        /\ UNCHANGED <<documents, analysis, pending, dirty_by_workspace, tasks,
                       published, http_log>>
        /\ UNCHANGED HandlerFrame

\* remove_document lines 88-92: under the lock of the entry of the key in
\* dirty_by_workspace, the URI is taken out of the set.
remove_document_entry(n) ==
    LET h == handlers[n]
        key == Unwrap(h.key)
    IN  /\ h.pc = "rm_dirty"
        /\ IF IsSome(dirty_by_workspace[key])
           THEN LET entry == Unwrap(dirty_by_workspace[key]) \ {h.uri}
                IN  /\ dirty_by_workspace' = [dirty_by_workspace EXCEPT ![key] = Some(entry)]
                    /\ handlers' = [handlers EXCEPT ![n].pc =
                            IF entry = {} THEN "rm_set" ELSE "close_pub"]
           ELSE /\ handlers' = [handlers EXCEPT ![n].pc = "close_pub"]
                /\ UNCHANGED dirty_by_workspace
        /\ UNCHANGED <<documents, analysis, pending, tasks, published, http_log>>
        /\ UNCHANGED HandlerFrame

\* remove_document lines 93-94: the lock of the entry is dropped and the
\* empty set is removed from the map.
remove_document_set(n) ==
    LET h == handlers[n]
        key == Unwrap(h.key)
    IN  /\ h.pc = "rm_set"
        /\ dirty_by_workspace' = [dirty_by_workspace EXCEPT ![key] = None]
        /\ handlers' = [handlers EXCEPT ![n].pc = "rm_pending"]
        /\ UNCHANGED <<documents, analysis, pending, tasks, published, http_log>>
        /\ UNCHANGED HandlerFrame

\* remove_document lines 95-97: the pending handle of the key is removed
\* and aborted; did_close then awaits its publication.
remove_document_pending(n) ==
    LET h == handlers[n]
        key == Unwrap(h.key)
    IN  /\ h.pc = "rm_pending"
        /\ tasks' = AbortPending(tasks, pending, key)
        /\ pending' = [pending EXCEPT ![key] = None]
        /\ handlers' = [handlers EXCEPT ![n].pc = "close_pub"]
        /\ UNCHANGED <<documents, analysis, dirty_by_workspace, published, http_log>>
        /\ UNCHANGED HandlerFrame

\* did_close line 176: publish_diagnostics(uri, vec![], None)
HandlerClosePublish(n) ==
    LET h == handlers[n]
    IN  /\ h.pc = "close_pub"
        /\ HandlerThreadFree
        /\ published' = Publish(published, h.uri, <<>>, None, "close", n)
        /\ handlers' = [handlers EXCEPT ![n].pc = "done"]
        /\ UNCHANGED <<documents, analysis, pending, dirty_by_workspace, tasks, http_log>>
        /\ UNCHANGED HandlerFrame

(***************************************************************************)
(* The remote analysis service (VulneraApiClient::analyze_dependencies)    *)
(* answers a request in one of these ways.  A result stands for the        *)
(* service's findings on the file content it was computed from.            *)
(***************************************************************************)
ResponseKinds ==
    {"http_error", "ok_ids", "ok_no_ids", "file_error", "short", "unknown_id",
     "empty_id", "duplicate_id", "file_error_duplicate_id", "file_error_unknown_id"}

ResultFor(file, file_id, error) ==
    [file_id |-> file_id, error |-> error, content |-> file.file_content,
     ecosystem |-> file.ecosystem]

Respond(kind, files) ==
    LET with_ids == [i \in 1..Len(files) |-> ResultFor(files[i], files[i].file_id, None)]
    IN  CASE kind = "http_error" -> [ok |-> FALSE, results |-> <<>>]
          [] kind = "ok_ids" -> [ok |-> TRUE, results |-> with_ids]
          [] kind = "ok_no_ids" ->
                [ok |-> TRUE,
                 results |-> [i \in 1..Len(files) |-> ResultFor(files[i], None, None)]]
          [] kind = "file_error" ->
                [ok |-> TRUE,
                 results |-> [with_ids EXCEPT ![1].error = Some("file error")]]
          [] kind = "short" -> [ok |-> TRUE, results |-> Tail(with_ids)]
          [] kind = "unknown_id" ->
                [ok |-> TRUE,
                 results |-> [with_ids EXCEPT ![Len(files)].file_id = Some("file:///elsewhere")]]
          [] kind = "empty_id" ->
                [ok |-> TRUE,
                 results |-> [with_ids EXCEPT ![Len(files)].file_id = Some("")]]
          [] kind = "duplicate_id" ->
                [ok |-> TRUE,
                 results |-> [i \in 1..Len(files) |->
                                ResultFor(files[i], files[1].file_id, None)]]
          [] kind = "file_error_duplicate_id" ->
                [ok |-> TRUE,
                 results |-> [i \in 1..Len(files) |->
                                ResultFor(files[i], files[1].file_id,
                                          IF i = 1 THEN Some("file error") ELSE None)]]
          [] kind = "file_error_unknown_id" ->
                [ok |-> TRUE,
                 results |-> [[with_ids EXCEPT ![1].error = Some("file error")]
                                  EXCEPT ![Len(files)].file_id = Some("file:///elsewhere")]]

\* build_analysis_failure_diagnostic(msg): severity Error, source "vulnera",
\* message "Dependency scan failed: " followed by msg.
build_analysis_failure_diagnostic(msg) ==
    [severity |-> "Error", source |-> "vulnera", prefix |-> "Dependency scan failed: ",
     detail |-> msg, content |-> 0, text |-> 0]

\* build_diagnostics(result, text, language_id): a non-empty list determined
\* by the result and the text it is anchored in.
build_diagnostics(result, text, language_id) ==
    << [severity |-> "Finding", source |-> "vulnera", prefix |-> "Dependency scan: ",
        detail |-> IF IsSome(language_id) THEN Unwrap(language_id) ELSE "",
        content |-> result.content, text |-> text] >>

\* The orders in which a HashSet or DashMap may hand out the members of S.
Orderings(S) ==
    {s \in [1..Cardinality(S) -> S] : \A i, j \in 1..Cardinality(S) : s[i] = s[j] => i = j}

\* A variant that sends the files without their file ids.
DependencyFileRequest_NoFileId(snapshot) ==
    [file_id |-> None, file_content |-> snapshot.text,
     ecosystem |-> snapshot.ecosystem, filename |-> snapshot.file_name,
     workspace_path |-> snapshot.workspace_path]

\* run_batch_analysis lines 212-225
DependencyFileRequest(snapshot) ==
    [file_id |-> Some(snapshot.uri), file_content |-> snapshot.text,
     ecosystem |-> snapshot.ecosystem, filename |-> snapshot.file_name,
     workspace_path |-> snapshot.workspace_path]

\* run_batch_analysis returns Err(err): the task is on its way to the
\* failure path of schedule_analysis (line 131).
Failing(t, err) == [Finished(t) EXCEPT !.err = err, !.pc = "failing"]

\* The documents of the task's workspace key now stored in `documents`.
StoredUnderKey(t, docs) ==
    {u \in URIS : IsSome(docs[u]) /\ KeyOfSnapshot(Unwrap(docs[u])) = Unwrap(t.key)}

\* The shards as they are known once the failure path looks for the
\* documents of the task's key: every such document now stored has its
\* shard drawn (a first draw uses shard 1 before shard 2).
ShardsAtIter(sh, t, docs) ==
    LET undrawn == {u \in StoredUnderKey(t, docs) : sh[u] = 0}
        drawn == {[u \in URIS |-> IF u \in undrawn THEN d[u] ELSE sh[u]] :
                      d \in [undrawn -> 1..NumShards]}
    IN  IF Interchangeable(sh)
        THEN {s \in drawn : (\E u \in URIS : s[u] = NumShards) => (\E u \in URIS : s[u] = 1)}
        ELSE drawn

\* schedule_analysis lines 135-147: state.documents.iter() visits the shards
\* of the map one after the other, each under its own read lock, and the
\* failure path collects from the shard `order` starts with the documents
\* stored there under the task's workspace key.
EnterFailure(t, docs, sh, order) ==
    LET affected == t.affected \cup {u \in StoredUnderKey(t, docs) : sh[u] = Head(order)}
    IN  IF Len(order) > 1
        THEN [t EXCEPT !.affected = affected, !.shards = Tail(order)]
        ELSE [t EXCEPT !.affected = affected, !.failed_docs = affected, !.shards = <<>>,
                       !.pc = IF affected = {} THEN "fail_show" ELSE "fail_pub"]

\* A variant that pairs result i with the snapshot at the mirrored place of
\* the request.
Paired_Mirrored(t, i) == Some(t.snaps[Len(t.snaps) + 1 - i])

\* The snapshot paired with result i: by file_id lookup (line 262) or by
\* position (line 298).
Paired(t, i) ==
    IF t.by_id
    THEN LET m == {j \in 1..Len(t.snaps) : Some(t.snaps[j].uri) = t.results[i].file_id}
         IN  IF m = {} THEN None ELSE Some(t.snaps[CHOOSE j \in m : TRUE])
    ELSE Some(t.snaps[i])

\* The task reaches result i of the response: the end of the loop (Ok), an
\* unknown file_id (Err), or the await of publication i.
Advance(t, i) ==
    IF i > Len(t.results) THEN [Finished(t) EXCEPT !.pc = "fin"]
    ELSE IF ~IsSome(Paired(t, i)) THEN Failing(t, "unknown file_id")
    ELSE [t EXCEPT !.pc = "pub", !.i = i]


(***************************************************************************)
(* The spawned task (schedule_analysis lines 129-180) and                  *)
(* run_batch_analysis.                                                     *)
(***************************************************************************)
TaskFrame == <<handlers, nevents, client_open, since_event, burst, shard, input, output>>

\* A schedule_analysis call put a URI in the dirty set of `key` (lines
\* 117-120) less than DebounceMs ago: so the latest such call is less than
\* DebounceMs old.  (A didClose handler holds a key too, but enqueues
\* nothing.)
Early(key) ==
    \E m \in EventIds :
        /\ handlers[m].kind # "didClose"
        /\ handlers[m].key = Some(key)
        /\ handlers[m].age < DebounceMs

\* The sleep is over: run_batch_analysis lines 186-194 remove the dirty
\* set of the key from the map; its members are then looked up in the
\* order in which the set hands them out.
TaskDrain(n) ==
    LET t == tasks[n]
        key == Unwrap(t.key)
        uris == IF IsSome(dirty_by_workspace[key]) THEN Unwrap(dirty_by_workspace[key]) ELSE {}
    IN  /\ t.pc = "sleep"
        /\ t.timer = 0
        /\ dirty_by_workspace' = [dirty_by_workspace EXCEPT ![key] = None]
        /\ IF uris = {}
           THEN tasks' = [tasks EXCEPT ![n] = [Finished(t) EXCEPT !.pc = "fin", !.early = FALSE]]
           ELSE \E order \in Orderings(uris) :
                    tasks' = [tasks EXCEPT ![n] =
                        [t EXCEPT !.pc = "reading", !.uris = order, !.early = Early(key)]]
        /\ UNCHANGED <<documents, analysis, pending, published, http_log>>
        /\ UNCHANGED TaskFrame

\* The snapshots read so far, with the one of `uri` if the store has it
\* and its ecosystem is known (run_batch_analysis lines 196-200).
WithSnapshot(snaps, docs, uri) ==
    IF IsSome(docs[uri]) /\ Unwrap(docs[uri]).ecosystem # "unknown"
    THEN Append(snaps, Unwrap(docs[uri])) ELSE snaps

\* run_batch_analysis lines 196-209: self.documents.get(uri) for the next
\* drained URI; after the last one the task returns if it has no snapshot
\* and else awaits the config lock (line 211).
TaskSnapshot(n) ==
    LET t == tasks[n]
        snapshots == WithSnapshot(t.snaps, documents, Head(t.uris))
    IN  /\ t.pc = "reading"
        /\ tasks' = [tasks EXCEPT ![n] =
                IF Len(t.uris) > 1 THEN [t EXCEPT !.uris = Tail(@), !.snaps = snapshots]
                ELSE IF snapshots = <<>> THEN [Finished(t) EXCEPT !.pc = "fin"]
                ELSE [t EXCEPT !.uris = <<>>, !.snaps = snapshots, !.pc = "drained"]]
        /\ UNCHANGED <<documents, analysis, pending, dirty_by_workspace, published, http_log>>
        /\ UNCHANGED TaskFrame

\* run_batch_analysis lines 212-230: the request is built and handed to
\* the HTTP client; the task awaits the response.  An abort takes effect
\* at an await that yields: a task aborted since its last yield still hands
\* its request over, and is cancelled at the await of the response.
TaskSend(n) ==
    LET t == tasks[n]
        key == Unwrap(t.key)
    IN  /\ t.pc = "drained"
        /\ http_log' = Append(http_log,
                [task |-> n, key |-> key, early |-> Early(key),
                 files |-> [i \in 1..Len(t.snaps) |-> DependencyFileRequest(t.snaps[i])]])
        /\ tasks' = [tasks EXCEPT ![n] =
                IF t.aborted THEN [Finished(t) EXCEPT !.pc = "cancelled"]
                ELSE [t EXCEPT !.pc = "http"]]
        /\ UNCHANGED <<documents, analysis, pending, dirty_by_workspace, published>>
        /\ UNCHANGED TaskFrame

\* run_batch_analysis lines 243-256: the number of results is compared
\* with the number of files, and the task reaches the first result.
Demultiplex(t) ==
    IF Len(t.results) # Len(t.snaps) THEN Failing(t, "cardinality mismatch")
    ELSE Advance(t, 1)

\* The response arrives: run_batch_analysis lines 227-256.  A response
\* that carries a request_id is logged first, and the task awaits
\* client.log_message (lines 234-241).
TaskResponse(n, kinds) ==
    LET t == tasks[n]
    IN  /\ t.pc = "http"
        /\ \E kind \in kinds, request_id \in BOOLEAN :
            LET files == [i \in 1..Len(t.snaps) |-> DependencyFileRequest(t.snaps[i])]
                response == Respond(kind, files)
                has_file_ids == \A i \in 1..Len(response.results) : IsSome(response.results[i].file_id)
                answered == [t EXCEPT !.results = response.results, !.by_id = has_file_ids]
            IN  tasks' = [tasks EXCEPT ![n] =
                    IF ~response.ok THEN Failing(t, "http error")
                    ELSE IF request_id THEN [answered EXCEPT !.pc = "resp_log"]
                    ELSE Demultiplex(answered)]
        /\ UNCHANGED <<documents, analysis, pending, dirty_by_workspace, published, http_log>>
        /\ UNCHANGED TaskFrame

\* run_batch_analysis lines 234-256: the logMessage with the request_id is
\* through.
TaskLogRequestId(n) ==
    LET t == tasks[n]
    IN  /\ t.pc = "resp_log"
        /\ tasks' = [tasks EXCEPT ![n] = Demultiplex(t)]
        /\ UNCHANGED <<documents, analysis, pending, dirty_by_workspace, published, http_log>>
        /\ UNCHANGED TaskFrame

\* A variant that publishes under the version the store holds at the time
\* of the publication.
TaskPublish_CurrentVersion(n) ==
    LET t == tasks[n]
        result == t.results[t.i]
        snapshot == Unwrap(Paired(t, t.i))
        version == IF IsSome(documents[snapshot.uri])
                   THEN Unwrap(documents[snapshot.uri]).version ELSE snapshot.version
    IN  /\ t.pc = "pub"
        /\ IF IsSome(result.error)
           THEN /\ published' = Publish(published, snapshot.uri,
                        <<build_analysis_failure_diagnostic(Unwrap(result.error))>>,
                        Some(version), "task", n)
                /\ tasks' = [tasks EXCEPT ![n] =
                        Advance([t EXCEPT !.npub = @ + 1], t.i + 1)]
           ELSE /\ published' = Publish(published, snapshot.uri,
                        build_diagnostics(result, snapshot.text, snapshot.language_id),
                        Some(version), "task", n)
                /\ tasks' = [tasks EXCEPT ![n] = [t EXCEPT !.pc = "ins", !.npub = @ + 1]]
        /\ UNCHANGED <<documents, analysis, pending, dirty_by_workspace, http_log>>
        /\ UNCHANGED TaskFrame

\* A variant that goes on to the cache entry after the failure diagnostic
\* of a result with `error` set.
TaskPublish_CacheOnError(n) ==
    LET t == tasks[n]
        result == t.results[t.i]
        snapshot == Unwrap(Paired(t, t.i))
    IN  /\ t.pc = "pub"
        /\ published' = Publish(published, snapshot.uri,
                IF IsSome(result.error)
                THEN <<build_analysis_failure_diagnostic(Unwrap(result.error))>>
                ELSE build_diagnostics(result, snapshot.text, snapshot.language_id),
                Some(snapshot.version), "task", n)
        /\ tasks' = [tasks EXCEPT ![n] = [t EXCEPT !.pc = "ins", !.npub = @ + 1]]
        /\ UNCHANGED <<documents, analysis, pending, dirty_by_workspace, http_log>>
        /\ UNCHANGED TaskFrame

\* run_batch_analysis lines 266-285 (299-318): the publication for result i.
TaskPublish(n) ==
    LET t == tasks[n]
        result == t.results[t.i]
        snapshot == Unwrap(Paired(t, t.i))
    IN  /\ t.pc = "pub"
        /\ IF IsSome(result.error)
           THEN /\ published' = Publish(published, snapshot.uri,
                        <<build_analysis_failure_diagnostic(Unwrap(result.error))>>,
                        Some(snapshot.version), "task", n)
                /\ tasks' = [tasks EXCEPT ![n] =
                        Advance([t EXCEPT !.npub = @ + 1], t.i + 1)]
           ELSE /\ published' = Publish(published, snapshot.uri,
                        build_diagnostics(result, snapshot.text, snapshot.language_id),
                        Some(snapshot.version), "task", n)
                /\ tasks' = [tasks EXCEPT ![n] = [t EXCEPT !.pc = "ins", !.npub = @ + 1]]
        /\ UNCHANGED <<documents, analysis, pending, dirty_by_workspace, http_log>>
        /\ UNCHANGED TaskFrame

\* run_batch_analysis lines 287-293 (320-326): the cache entry of result i.
TaskCacheInsert(n) ==
    LET t == tasks[n]
        result == t.results[t.i]
        snapshot == Unwrap(Paired(t, t.i))
    IN  /\ t.pc = "ins"
        /\ analysis' = [analysis EXCEPT ![snapshot.uri] =
                Some([result |-> result,
                      diagnostics |-> build_diagnostics(result, snapshot.text, snapshot.language_id)])]
        /\ tasks' = [tasks EXCEPT ![n] = Advance(t, t.i + 1)]
        /\ UNCHANGED <<documents, pending, dirty_by_workspace, published, http_log>>
        /\ UNCHANGED TaskFrame

\* schedule_analysis lines 135-147: the failure path visits the next shard
\* of state.documents.iter(); the map hands its shards out in an order of
\* its own.
TaskEnterFailure(n) ==
    LET t == tasks[n]
    IN  /\ t.pc = "failing"
        /\ \E order \in (IF t.shards = <<>> THEN Orderings(1..NumShards) ELSE {t.shards}) :
           \E sh \in ShardsAtIter(shard, t, documents) :
                /\ shard' = sh
                /\ tasks' = [tasks EXCEPT ![n] = EnterFailure(t, documents, sh, order)]
        /\ UNCHANGED <<documents, analysis, pending, dirty_by_workspace, published, http_log>>
        /\ UNCHANGED <<handlers, nevents, client_open, since_event, burst, input, output>>

\* schedule_analysis lines 149-150: state.document_snapshot(&uri) for the
\* next affected document; one that is no longer stored is passed over.
TaskFailSnapshot(n) ==
    LET t == tasks[n]
    IN  /\ t.pc = "fail_pub"
        /\ \E u \in t.affected :
            tasks' = [tasks EXCEPT ![n] =
                IF IsSome(documents[u])
                THEN [t EXCEPT !.affected = @ \ {u}, !.pc = "fail_await",
                               !.held = Some([uri |-> u, version |-> Unwrap(documents[u]).version])]
                ELSE [t EXCEPT !.affected = @ \ {u},
                               !.pc = IF t.affected = {u} THEN "fail_show" ELSE "fail_pub"]]
        /\ UNCHANGED <<documents, analysis, pending, dirty_by_workspace, published, http_log>>
        /\ UNCHANGED TaskFrame

\* schedule_analysis lines 151-158: the failure diagnostic is published for
\* the snapshot read, under its version.
TaskFailPublish(n) ==
    LET t == tasks[n]
        snapshot == Unwrap(t.held)
    IN  /\ t.pc = "fail_await"
        /\ published' = Publish(published, snapshot.uri,
                <<build_analysis_failure_diagnostic(t.err)>>,
                Some(snapshot.version), "task", n)
        /\ tasks' = [tasks EXCEPT ![n] =
                [t EXCEPT !.held = None, !.npub = @ + 1,
                          !.pc = IF t.affected = {} THEN "fail_show" ELSE "fail_pub"]]
        /\ UNCHANGED <<documents, analysis, pending, dirty_by_workspace, http_log>>
        /\ UNCHANGED TaskFrame

\* schedule_analysis lines 162-168: window/showMessage
TaskShowMessage(n) ==
    LET t == tasks[n]
    IN  /\ t.pc = "fail_show"
        /\ tasks' = [tasks EXCEPT ![n] = [t EXCEPT !.shown = @ + 1, !.pc = "fail_log"]]
        /\ UNCHANGED <<documents, analysis, pending, dirty_by_workspace, published, http_log>>
        /\ UNCHANGED TaskFrame

\* schedule_analysis line 179: state.pending.remove(&workspace_key_for_task)
\* (on the failure path, after the logMessage of lines 170-176).
TaskFinish(n) ==
    LET t == tasks[n]
    IN  /\ t.pc \in {"fin", "fail_log"}
        /\ pending' = [pending EXCEPT ![Unwrap(t.key)] = None]
        /\ tasks' = [tasks EXCEPT ![n] = [Finished(t) EXCEPT !.pc = "done"]]
        /\ UNCHANGED <<documents, analysis, dirty_by_workspace, published, http_log>>
        /\ UNCHANGED TaskFrame

\* An aborted task is cancelled at an await that yields.
TaskCancelled(n) ==
    LET t == tasks[n]
    IN  /\ t.aborted
        /\ MayYield(t)
        /\ tasks' = [tasks EXCEPT ![n] = [Finished(t) EXCEPT !.pc = "cancelled"]]
        /\ UNCHANGED <<documents, analysis, pending, dirty_by_workspace, published, http_log>>
        /\ UNCHANGED TaskFrame

Min(a, b) == IF a < b THEN a ELSE b

\* Time passes: the timers of the sleeping tasks and the observer's clock.
\* Code that is executing finishes its step first, and a notification is
\* taken up within a tick of its arrival.  The one place where the thread
\* of the handlers may be held for any time is between tokio::spawn and
\* pending.insert (state.rs 129-182): nothing orders the spawned task,
\* which runs on the worker threads, after that insert.
Tick ==
    /\ \A n \in EventIds : handlers[n].pc \notin (HandlerSync \ {"spawned"})
    /\ \A n \in EventIds : ~Running(tasks[n])
    /\ \A n \in EventIds : ~handlers[n].waited
    /\ \/ \E n \in EventIds : tasks[n].pc = "sleep" /\ tasks[n].timer > 0
       \/ since_event < DebounceMs
    /\ tasks' = [n \in EventIds |->
            IF tasks[n].pc = "sleep" /\ tasks[n].timer > 0
            THEN [tasks[n] EXCEPT !.timer = @ - 1] ELSE tasks[n]]
    /\ handlers' = [n \in EventIds |->
            IF handlers[n].pc = "arrived"
            THEN [handlers[n] EXCEPT !.waited = TRUE]
            ELSE IF handlers[n].kind # "didClose" /\ IsSome(handlers[n].key)
                 THEN [handlers[n] EXCEPT !.age = Min(@ + 1, DebounceMs)]
            ELSE handlers[n]]
    /\ since_event' = Min(since_event + 1, DebounceMs)
    /\ UNCHANGED <<documents, analysis, pending, dirty_by_workspace, nevents,
                   client_open, published, http_log, burst, shard, input, output>>

Next ==
    \/ \E kind \in NotificationKinds, u \in FileDocs, with_text \in BOOLEAN, in_range \in BOOLEAN :
            Arrive(MaxEvents, kind, u, with_text, in_range)
    \/ \E n \in EventIds : did_open(n)
    \/ \E n \in EventIds : did_change(n)
    \/ \E n \in EventIds : HandlerChangeFallback(n)
    \/ \E n \in EventIds : did_save(n)
    \/ \E n \in EventIds : did_close(n)
    \/ \E n \in EventIds : remove_document_analysis(n)
    \/ \E n \in EventIds : remove_document_entry(n)
    \/ \E n \in EventIds : remove_document_set(n)
    \/ \E n \in EventIds : remove_document_pending(n)
    \/ \E n \in EventIds : HandlerSchedule(n)
    \/ \E n \in EventIds : HandlerAbortPending(n)
    \/ \E n \in EventIds : HandlerSpawnTask(n)
    \/ \E n \in EventIds : HandlerRecordHandle(n)
    \/ \E n \in EventIds : HandlerUnknownPublish(n)
    \/ \E n \in EventIds : HandlerClosePublish(n)
    \/ \E n \in EventIds : TaskDrain(n)
    \/ \E n \in EventIds : TaskSnapshot(n)
    \/ \E n \in EventIds : TaskSend(n)
    \/ \E n \in EventIds : TaskResponse(n, ResponseKinds)
    \/ \E n \in EventIds : TaskLogRequestId(n)
    \/ \E n \in EventIds : TaskPublish(n)
    \/ \E n \in EventIds : TaskCacheInsert(n)
    \/ \E n \in EventIds : TaskEnterFailure(n)
    \/ \E n \in EventIds : TaskFailSnapshot(n)
    \/ \E n \in EventIds : TaskFailPublish(n)
    \/ \E n \in EventIds : TaskShowMessage(n)
    \/ \E n \in EventIds : TaskFinish(n)
    \/ \E n \in EventIds : TaskCancelled(n)
    \/ Tick

\* A session of at most MaxEvents notifications on any of the documents,
\* with any answer of the service.
Spec == Init /\ [][Next]_vars

\* A longer session on the two manifests of workspace /w, opened and
\* closed, with the service answering every request in full.
BurstDocs == {PkgJson, CargoToml}
BurstKinds == {"didOpen", "didClose"}
BurstResponses == {"ok_ids"}

NextBurst ==
    \/ \E kind \in BurstKinds, u \in BurstDocs : Arrive(MaxBurst, kind, u, TRUE, TRUE)
    \/ \E n \in EventIds : did_open(n)
    \/ \E n \in EventIds : did_close(n)
    \/ \E n \in EventIds : remove_document_analysis(n)
    \/ \E n \in EventIds : remove_document_entry(n)
    \/ \E n \in EventIds : remove_document_set(n)
    \/ \E n \in EventIds : remove_document_pending(n)
    \/ \E n \in EventIds : HandlerSchedule(n)
    \/ \E n \in EventIds : HandlerAbortPending(n)
    \/ \E n \in EventIds : HandlerSpawnTask(n)
    \/ \E n \in EventIds : HandlerRecordHandle(n)
    \/ \E n \in EventIds : HandlerClosePublish(n)
    \/ \E n \in EventIds : TaskDrain(n)
    \/ \E n \in EventIds : TaskSnapshot(n)
    \/ \E n \in EventIds : TaskSend(n)
    \/ \E n \in EventIds : TaskResponse(n, BurstResponses)
    \/ \E n \in EventIds : TaskLogRequestId(n)
    \/ \E n \in EventIds : TaskPublish(n)
    \/ \E n \in EventIds : TaskCacheInsert(n)
    \/ \E n \in EventIds : TaskFinish(n)
    \/ \E n \in EventIds : TaskCancelled(n)
    \/ Tick

SpecBurst == Init /\ [][NextBurst]_vars

\* A session of document synchronisation on one manifest: it is opened,
\* changed by edits that resolve and edits that do not, and closed, with
\* the service answering every request in full.
SyncDocs == {PkgJson}
SyncKinds == {"didOpen", "didChange", "didClose"}

NextSync ==
    \/ \E kind \in SyncKinds, u \in SyncDocs, in_range \in BOOLEAN :
            Arrive(MaxBurst, kind, u, TRUE, in_range)
    \/ \E n \in EventIds : did_open(n)
    \/ \E n \in EventIds : did_change(n)
    \/ \E n \in EventIds : HandlerChangeFallback(n)
    \/ \E n \in EventIds : did_close(n)
    \/ \E n \in EventIds : remove_document_analysis(n)
    \/ \E n \in EventIds : remove_document_entry(n)
    \/ \E n \in EventIds : remove_document_set(n)
    \/ \E n \in EventIds : remove_document_pending(n)
    \/ \E n \in EventIds : HandlerSchedule(n)
    \/ \E n \in EventIds : HandlerAbortPending(n)
    \/ \E n \in EventIds : HandlerSpawnTask(n)
    \/ \E n \in EventIds : HandlerRecordHandle(n)
    \/ \E n \in EventIds : HandlerClosePublish(n)
    \/ \E n \in EventIds : TaskDrain(n)
    \/ \E n \in EventIds : TaskSnapshot(n)
    \/ \E n \in EventIds : TaskSend(n)
    \/ \E n \in EventIds : TaskResponse(n, BurstResponses)
    \/ \E n \in EventIds : TaskLogRequestId(n)
    \/ \E n \in EventIds : TaskPublish(n)
    \/ \E n \in EventIds : TaskCacheInsert(n)
    \/ \E n \in EventIds : TaskFinish(n)
    \/ \E n \in EventIds : TaskCancelled(n)
    \/ Tick

SpecSync == Init /\ [][NextSync]_vars

\* A session on the two manifests of workspace /w, opened in any order,
\* package.json then saved without an edit, with a service that answers every request in full, with or
\* without file ids, each result computed from the content and the
\* ecosystem of its file alone.
DeterministicResponses == {"ok_ids", "ok_no_ids"}

NextDeterministic ==
    \/ \E u \in BurstDocs : Arrive(MaxBurst, "didOpen", u, TRUE, TRUE)
    \/ Arrive(MaxBurst, "didSave", PkgJson, FALSE, TRUE)
    \/ \E n \in EventIds : did_open(n)
    \/ \E n \in EventIds : did_save(n)
    \/ \E n \in EventIds : HandlerSchedule(n)
    \/ \E n \in EventIds : HandlerAbortPending(n)
    \/ \E n \in EventIds : HandlerSpawnTask(n)
    \/ \E n \in EventIds : HandlerRecordHandle(n)
    \/ \E n \in EventIds : TaskDrain(n)
    \/ \E n \in EventIds : TaskSnapshot(n)
    \/ \E n \in EventIds : TaskSend(n)
    \/ \E n \in EventIds : TaskResponse(n, DeterministicResponses)
    \/ \E n \in EventIds : TaskLogRequestId(n)
    \/ \E n \in EventIds : TaskPublish(n)
    \/ \E n \in EventIds : TaskCacheInsert(n)
    \/ \E n \in EventIds : TaskFinish(n)
    \/ \E n \in EventIds : TaskCancelled(n)
    \/ Tick

SpecDeterministic == Init /\ [][NextDeterministic]_vars

\* A session in which the two manifests of workspace /w are opened, with a
\* service that answers every request with as many results as it has files:
\* with the file ids of the request, without file ids, with an empty file
\* id, with the same file id in every result, or with a file id that was
\* not requested.
PairingKinds == {"didOpen"}
PairingResponses == {"ok_ids", "ok_no_ids", "empty_id", "duplicate_id", "unknown_id"}

NextPairing ==
    \/ \E kind \in PairingKinds, u \in BurstDocs : Arrive(MaxEvents, kind, u, TRUE, TRUE)
    \/ \E n \in EventIds : did_open(n)
    \/ \E n \in EventIds : HandlerSchedule(n)
    \/ \E n \in EventIds : HandlerAbortPending(n)
    \/ \E n \in EventIds : HandlerSpawnTask(n)
    \/ \E n \in EventIds : HandlerRecordHandle(n)
    \/ \E n \in EventIds : TaskDrain(n)
    \/ \E n \in EventIds : TaskSnapshot(n)
    \/ \E n \in EventIds : TaskSend(n)
    \/ \E n \in EventIds : TaskResponse(n, PairingResponses)
    \/ \E n \in EventIds : TaskLogRequestId(n)
    \/ \E n \in EventIds : TaskPublish(n)
    \/ \E n \in EventIds : TaskCacheInsert(n)
    \/ \E n \in EventIds : TaskEnterFailure(n)
    \/ \E n \in EventIds : TaskFailSnapshot(n)
    \/ \E n \in EventIds : TaskFailPublish(n)
    \/ \E n \in EventIds : TaskShowMessage(n)
    \/ \E n \in EventIds : TaskFinish(n)
    \/ \E n \in EventIds : TaskCancelled(n)
    \/ Tick

SpecPairing == Init /\ [][NextPairing]_vars

\* A session in which the manifests of workspace /w are opened, with a
\* service that answers every request in full, run under the scheduling of
\* the runtime: the server takes up every notification it has received, a
\* handler or a task that can take a step takes it, a timer that runs
\* expires, and a request that was sent is answered.  The client sends what
\* it likes when it likes.
ServerStep ==
    \/ \E n \in EventIds : HandlerSchedule(n)
    \/ \E n \in EventIds : HandlerAbortPending(n)
    \/ \E n \in EventIds : HandlerSpawnTask(n)
    \/ \E n \in EventIds : HandlerRecordHandle(n)
    \/ \E n \in EventIds : TaskDrain(n)
    \/ \E n \in EventIds : TaskSnapshot(n)
    \/ \E n \in EventIds : TaskSend(n)
    \/ \E n \in EventIds : TaskResponse(n, BurstResponses)
    \/ \E n \in EventIds : TaskLogRequestId(n)
    \/ \E n \in EventIds : TaskPublish(n)
    \/ \E n \in EventIds : TaskCacheInsert(n)
    \/ \E n \in EventIds : TaskFinish(n)
    \/ \E n \in EventIds : TaskCancelled(n)
    \/ Tick

NextLive ==
    \/ \E u \in BurstDocs : Arrive(MaxEvents, "didOpen", u, TRUE, TRUE)
    \/ \E n \in EventIds : did_open(n)
    \/ ServerStep

\* Every notification received is taken up by its handler.
EveryNotificationHandled == []<>(\A n \in EventIds : handlers[n].pc # "arrived")

SpecLive ==
    Init /\ [][NextLive]_vars /\ WF_vars(ServerStep) /\ EveryNotificationHandled

\* A session on a document without a file name, whose ecosystem follows from
\* the languageId of its didOpen alone: it is opened as plain text or as
\* Rust, changed by edits that resolve and edits that do not, closed and
\* opened again, all within one debounce window (no timer expires, so the
\* tasks spawned stay asleep until they are aborted).
ReopenLanguages == {"plaintext", "rust"}
ReopenKinds == {"didChange", "didClose"}

NextReopen ==
    \/ \E language_id \in ReopenLanguages : ArriveOpen(MaxReopen, Untitled, language_id)
    \/ \E kind \in ReopenKinds, in_range \in BOOLEAN :
            Arrive(MaxReopen, kind, Untitled, TRUE, in_range)
    \/ \E n \in EventIds : did_open(n)
    \/ \E n \in EventIds : did_change(n)
    \/ \E n \in EventIds : HandlerChangeFallback(n)
    \/ \E n \in EventIds : did_close(n)
    \/ \E n \in EventIds : remove_document_analysis(n)
    \/ \E n \in EventIds : remove_document_entry(n)
    \/ \E n \in EventIds : remove_document_set(n)
    \/ \E n \in EventIds : remove_document_pending(n)
    \/ \E n \in EventIds : HandlerSchedule(n)
    \/ \E n \in EventIds : HandlerAbortPending(n)
    \/ \E n \in EventIds : HandlerSpawnTask(n)
    \/ \E n \in EventIds : HandlerRecordHandle(n)
    \/ \E n \in EventIds : HandlerUnknownPublish(n)
    \/ \E n \in EventIds : HandlerClosePublish(n)

SpecReopen == Init /\ [][NextReopen]_vars

(***************************************************************************)
(* The severity mapping (src/src/diagnostics.rs).  A string is a sequence  *)
(* of characters; a character outside ASCII is named by its code point.    *)
(***************************************************************************)
\* char::to_lowercase: the ASCII capitals, KELVIN SIGN and LATIN CAPITAL
\* LETTER I WITH DOT ABOVE (which lowercases to two characters); the other
\* characters of the model have no lowercase mapping.
LowercaseOf(c) ==
    IF \E j \in 1..Len(UpperLetters) : UpperLetters[j] = c
    THEN <<LowerLetters[CHOOSE j \in 1..Len(UpperLetters) : UpperLetters[j] = c]>>
    ELSE IF c = "U+212A" THEN <<"k">>
    ELSE IF c = "U+0130" THEN <<"i", "U+0307">>
    ELSE <<c>>

\* str::to_lowercase
RECURSIVE ToLowercase(_)
ToLowercase(s) == IF s = <<>> THEN <<>> ELSE LowercaseOf(Head(s)) \o ToLowercase(Tail(s))

\* A variant that compares the severity as it is written.
map_severity_CaseSensitive(severity) ==
    IF severity = <<"c","r","i","t","i","c","a","l">> THEN "ERROR"
    ELSE IF severity = <<"h","i","g","h">> THEN "ERROR"
    ELSE IF severity = <<"m","e","d","i","u","m">> THEN "WARNING"
    ELSE IF severity = <<"l","o","w">> THEN "INFORMATION"
    ELSE "HINT"

\* diagnostics::map_severity
map_severity(severity) ==
    LET s == ToLowercase(severity)
    IN  IF s = <<"c","r","i","t","i","c","a","l">> THEN "ERROR"
        ELSE IF s = <<"h","i","g","h">> THEN "ERROR"
        ELSE IF s = <<"m","e","d","i","u","m">> THEN "WARNING"
        ELSE IF s = <<"l","o","w">> THEN "INFORMATION"
        ELSE "HINT"

\* The capital of an ASCII letter.
UpperOf(c) ==
    IF \E j \in 1..Len(LowerLetters) : LowerLetters[j] = c
    THEN UpperLetters[CHOOSE j \in 1..Len(LowerLetters) : LowerLetters[j] = c]
    ELSE c

\* The spellings of a lower-case word in every mix of cases.
CaseVariants(w) ==
    {[i \in 1..Len(w) |-> IF i \in U THEN UpperOf(w[i]) ELSE w[i]] : U \in SUBSET (1..Len(w))}

\* The severity strings tried: the four names in every mix of cases, and
\* strings that are none of them (other words, the names with a character
\* missing, added or replaced, with surrounding blanks, or with a character
\* whose lowercase is not ASCII).
SeverityInputs ==
    CaseVariants(<<"c","r","i","t","i","c","a","l">>)
    \cup CaseVariants(<<"h","i","g","h">>)
    \cup CaseVariants(<<"m","e","d","i","u","m">>)
    \cup CaseVariants(<<"l","o","w">>)
    \cup CaseVariants(<<"i","n","f","o">>)
    \cup { <<>>, <<"u","n","k","n","o","w","n">>, <<"m","o","d","e","r","a","t","e">>,
           <<"h","i","g">>, <<"h","i","g","h","h">>, <<" ","h","i","g","h">>,
           <<"L","O","W"," ">>, <<"l","0","w">>, <<"M","e","d","i","u","m","\n">>,
           <<"c","r","U+0130","t","i","c","a","l">>, <<"C","R","I","T","I","C","A","L","!">>,
           <<"U+212A">>, <<"e","r","r","o","r">>, <<"w","a","r","n","i","n","g">> }

\* One call of map_severity on any of the inputs.
InitSeverity ==
    /\ ServerInit
    /\ input \in {[fn |-> "map_severity", severity |-> s] : s \in SeverityInputs}
    /\ output = None

MapSeverityCall ==
    /\ input.fn = "map_severity"
    /\ output = None
    /\ output' = Some(map_severity(input.severity))
    /\ UNCHANGED <<documents, analysis, pending, dirty_by_workspace, handlers, tasks,
                   nevents, client_open, published, http_log, since_event, burst,
                   shard, input>>

NextSeverity == MapSeverityCall

SpecSeverity == InitSeverity /\ [][NextSeverity]_vars

(***************************************************************************)
(* The package-version locator (src/src/package_locator.rs), the quick-fix *)
(* edit (src/src/code_actions.rs) and the incremental edit application     *)
(* (src/src/lsp.rs).  Offsets are byte offsets in the UTF-8 text, as the   *)
(* regex engine and str::find report them; text[i] is the i-th character.  *)
(***************************************************************************)
\* char::len_utf8 and char::len_utf16 of the characters of the model.
\* U+0080..U+07FF take two bytes, U+0800..U+FFFF three, the characters
\* beyond four.
TwoByteCharacters == {"", " ", "U+00E9", "U+0130", "U+0307"}

ThreeByteCharacters ==
    {"U+1680", "U+2000", "U+2001", "U+2002", "U+2003", "U+2004", "U+2005", "U+2006",
     "U+2007", "U+2008", "U+2009", "U+200A", "U+2028", "U+2029", "U+202F", "U+205F",
     "U+3000", "U+212A"}

len_utf8(ch) ==
    IF ch = "U+1F680" THEN 4
    ELSE IF ch \in ThreeByteCharacters THEN 3
    ELSE IF ch \in TwoByteCharacters THEN 2
    ELSE 1

len_utf16(ch) == IF ch = "U+1F680" THEN 2 ELSE 1

\* str::len of a text: the sum of len_utf8 over its characters, one for
\* each character and one more for each byte a character has beyond the
\* first, the second and the third.
ByteLen(s) ==
    Len(s) + Cardinality({i \in 1..Len(s) : len_utf8(s[i]) >= 2})
           + Cardinality({i \in 1..Len(s) : len_utf8(s[i]) >= 3})
           + Cardinality({i \in 1..Len(s) : len_utf8(s[i]) >= 4})

\* The byte offset at which the i-th character starts.
ByteOffset(text, i) == ByteLen(SubSeq(text, 1, i - 1))

\* package_locator::offset_to_position (code_actions.rs has the same).  The
\* loop goes through the n characters that start before the offset (count
\* is the byte offset of the character at hand); line counts the line
\* feeds among them, col the characters after the last of these, one per
\* character whatever its width.
offset_to_position(text, offset) ==
    LET n == Cardinality({k \in 1..Len(text) : ByteOffset(text, k) < offset})
        feeds == {k \in 1..n : text[k] = "\n"}
    IN  [line |-> Cardinality(feeds),
         character |-> IF feeds = {} THEN n ELSE n - Max(feeds)]

\* package_locator::span_to_range (code_actions.rs has the same).
span_to_range(text, start, end) ==
    [start |-> offset_to_position(text, start), end |-> offset_to_position(text, end)]

(***************************************************************************)
(* The regular expressions, matched as the regex crate matches them:       *)
(* leftmost first, greedy repetitions that give back what the rest of the  *)
(* pattern needs.  A match is [pkg, ver_start, ver_end, end] in character  *)
(* indices, ver_end and end exclusive.                                     *)
(***************************************************************************)
\* The character classes of the patterns, named as the patterns write them.
AsciiAlphanumerics ==
    {UpperLetters[j] : j \in 1..Len(UpperLetters)}
        \cup {LowerLetters[j] : j \in 1..Len(LowerLetters)}
        \cup {"0", "1", "2", "3", "4", "5", "6", "7", "8", "9"}

InClass(class, ch) ==
    CASE class = "\\s" -> ch \in Whitespace
      [] class = "[^\"]" -> ch # "\""
      [] class = "[^}]" -> ch # "}"
      [] class = "[A-Za-z0-9_\\-]" -> ch \in AsciiAlphanumerics \cup {"_", "-"}
      [] class = "[A-Za-z0-9_.\\-]" -> ch \in AsciiAlphanumerics \cup {"_", ".", "-"}
      [] class = "[=<>!~]" -> ch \in {"=", "<", ">", "!", "~"}
      [] class = "[^\\s#]" -> ch \notin (Whitespace \cup {"#"})

\* The end (exclusive) of the longest run of characters of a class from i.
RunEnd(text, i, class) ==
    CHOOSE j \in i..(Len(text) + 1) :
        /\ \A k \in i..(j - 1) : InClass(class, text[k])
        /\ (j = Len(text) + 1 \/ ~InClass(class, text[j]))

\* The literal lit stands at index i.
LiteralAt(text, i, lit) ==
    /\ i + Len(lit) - 1 <= Len(text)
    /\ SubSeq(text, i, i + Len(lit) - 1) = lit

\* (?m)^ at index s: the start of the text or of a line.
AtLineStart(text, s) == s = 1 \/ text[s - 1] = "\n"

\* ^\s* from index s: the indices at which the name may start.  \s* is
\* greedy: it takes the whole run of whitespace and gives characters back
\* while the rest of the pattern does not match (a name that itself
\* starts with whitespace), so of the starts that match the last wins.
LeadingSpace(text, s) == s..RunEnd(text, s, "\\s")

\* Of the matches found, each with the index it starts at, the match of
\* the smallest index, of the greatest index.
Leftmost(found) ==
    IF found = {} THEN None
    ELSE (CHOOSE f \in found : \A x \in found : f.start <= x.start).m

Rightmost(found) ==
    IF found = {} THEN None
    ELSE (CHOOSE f \in found : \A x \in found : x.start <= f.start).m

\* "(?P<ver>[^"]+)" at index b.
QuotedVersionAt(text, b) ==
    IF b > Len(text) \/ text[b] # "\"" THEN None
    ELSE LET c == RunEnd(text, b + 1, "[^\"]")
         IN  IF c = b + 1 \/ c > Len(text) THEN None
             ELSE Some([ver_start |-> b + 1, ver_end |-> c, end |-> c + 1])

\* \s* sep \s* "(?P<ver>[^"]+)" at index q, sep one character.
SeparatorAndVersionAt(text, q, sep) ==
    LET a == RunEnd(text, q, "\\s")
    IN  IF a > Len(text) \/ text[a] # sep THEN None
        ELSE QuotedVersionAt(text, RunEnd(text, a + 1, "\\s"))

\* The package name at index a: the literal of the escaped name when the
\* pattern is built for one package (code_actions: package is Some), else
\* the longest run of the name class (package_locator).  The result is
\* [pkg, next] or None.
NameAt(text, a, package, class) ==
    IF IsSome(package)
    THEN IF LiteralAt(text, a, Unwrap(package))
         THEN Some([pkg |-> Unwrap(package), next |-> a + Len(Unwrap(package))])
         ELSE None
    ELSE LET e == RunEnd(text, a, class)
         IN  IF e = a THEN None ELSE Some([pkg |-> SubSeq(text, a, e - 1), next |-> e])

\* A match: the name and the version found after it.
WithPkg(name, v) ==
    IF ~IsSome(name) \/ ~IsSome(v) THEN None
    ELSE Some([pkg |-> Unwrap(name).pkg, ver_start |-> Unwrap(v).ver_start,
               ver_end |-> Unwrap(v).ver_end, end |-> Unwrap(v).end])

\* "\s*:\s*"(?P<ver>[^"]+)" after the name of an npm entry.
NpmAfterName(text, name) ==
    IF ~IsSome(name) THEN None
    ELSE IF Unwrap(name).next > Len(text) \/ text[Unwrap(name).next] # "\"" THEN None
    ELSE WithPkg(name, SeparatorAndVersionAt(text, Unwrap(name).next + 1, ":"))

\* "(?P<pkg>[^"]+)"\s*:\s*"(?P<ver>[^"]+)" at index s.
NpmMatchAt(text, package, s) ==
    IF text[s] # "\"" THEN None
    ELSE NpmAfterName(text, NameAt(text, s + 1, package, "[^\"]"))

\* \s*[=<>!~]+\s*(?P<ver>[^\s#]+) after the name of a requirement: the
\* whitespace up to b, the operator run b..o, the whitespace o..c and the
\* version run c..d.  The operator run is greedy; when nothing is left for
\* the version it gives its last character back, and the version is the
\* run from there.
PypiAfterName(text, name) ==
    IF ~IsSome(name) THEN None
    ELSE LET b == RunEnd(text, Unwrap(name).next, "\\s")
             o == RunEnd(text, b, "[=<>!~]")
             c == RunEnd(text, o, "\\s")
             d == RunEnd(text, c, "[^\\s#]")
         IN  IF o = b THEN None
             ELSE IF d > c
                  THEN WithPkg(name, Some([ver_start |-> c, ver_end |-> d, end |-> d]))
             ELSE IF o - 1 > b
                  THEN LET g == RunEnd(text, o - 1, "[^\\s#]")
                       IN  WithPkg(name, Some([ver_start |-> o - 1, ver_end |-> g, end |-> g]))
             ELSE None

\* (?m)^\s*(?P<pkg>[A-Za-z0-9_.\-]+)\s*[=<>!~]+\s*(?P<ver>[^\s#]+) at s.
PypiMatchAt(text, package, s) ==
    IF ~AtLineStart(text, s) THEN None
    ELSE Rightmost({f \in {[start |-> a,
                            m |-> PypiAfterName(text, NameAt(text, a, package,
                                                             "[A-Za-z0-9_.\\-]"))] :
                               a \in LeadingSpace(text, s)} :
                       IsSome(f.m)})

\* \s*=\s*"(?P<ver>[^"]+)" after the name of a cargo dependency.
CargoAfterName(text, name) ==
    IF ~IsSome(name) THEN None
    ELSE WithPkg(name, SeparatorAndVersionAt(text, Unwrap(name).next, "="))

\* (?m)^\s*(?P<pkg>[A-Za-z0-9_\-]+)\s*=\s*"(?P<ver>[^"]+)" at s.
CargoMatchAt(text, package, s) ==
    IF ~AtLineStart(text, s) THEN None
    ELSE Rightmost({f \in {[start |-> a,
                            m |-> CargoAfterName(text, NameAt(text, a, package,
                                                              "[A-Za-z0-9_\\-]"))] :
                               a \in LeadingSpace(text, s)} :
                       IsSome(f.m)})

\* version\s*=\s*"(?P<ver>[^"]+)" at index j.
InlineVersionAt(text, j) ==
    IF LiteralAt(text, j, <<"v","e","r","s","i","o","n">>)
    THEN SeparatorAndVersionAt(text, j + 7, "=")
    ELSE None

\* \s*=\s*\{[^}]*version\s*=\s*"(?P<ver>[^"]+)" after the name: the equals
\* sign at b, the brace at c; [^}]* is greedy, so the last `version` that
\* the run of [^}] reaches wins.
CargoInlineAfterName(text, name) ==
    IF ~IsSome(name) THEN None
    ELSE LET b == RunEnd(text, Unwrap(name).next, "\\s")
             c == RunEnd(text, b + 1, "\\s")
         IN  IF b > Len(text) \/ text[b] # "=" THEN None
             ELSE IF c > Len(text) \/ text[c] # "{" THEN None
             ELSE WithPkg(name,
                          Rightmost({f \in {[start |-> j, m |-> InlineVersionAt(text, j)] :
                                                j \in (c + 1)..RunEnd(text, c + 1, "[^}]")} :
                                        IsSome(f.m)}))

\* (?m)^\s*(?P<pkg>[A-Za-z0-9_\-]+)\s*=\s*\{[^}]*version\s*=\s*"(?P<ver>[^"]+)"
\* at s.
CargoInlineMatchAt(text, package, s) ==
    IF ~AtLineStart(text, s) THEN None
    ELSE Rightmost({f \in {[start |-> a,
                            m |-> CargoInlineAfterName(text, NameAt(text, a, package,
                                                                    "[A-Za-z0-9_\\-]"))] :
                               a \in LeadingSpace(text, s)} :
                       IsSome(f.m)})

\* The match of one of the four patterns at index s.
MatchAt(regex, text, package, s) ==
    CASE regex = "npm" -> NpmMatchAt(text, package, s)
      [] regex = "pypi" -> PypiMatchAt(text, package, s)
      [] regex = "cargo" -> CargoMatchAt(text, package, s)
      [] regex = "cargo_inline" -> CargoInlineMatchAt(text, package, s)

\* The leftmost match that starts at index pos or later.
FirstMatch(regex, text, package, pos) ==
    Leftmost({f \in {[start |-> s, m |-> MatchAt(regex, text, package, s)] :
                        s \in pos..Len(text)} :
                IsSome(f.m)})

\* The range of the version of a match.
VersionRange(text, m) ==
    span_to_range(text, ByteOffset(text, m.ver_start), ByteOffset(text, m.ver_end))

\* Option::or_else
or_else(a, b) == IF IsSome(a) THEN a ELSE b

\* package_locator::find_with_regex from index pos on: captures_iter goes
\* through the successive matches, each search starting where the match
\* before ended, up to the first whose pkg is the package.
RECURSIVE find_with_regex_from(_, _, _, _)
RECURSIVE find_map(_, _, _, _)
find_map(text, package, regex, m) ==
    IF ~IsSome(m) THEN None
    ELSE IF Unwrap(m).pkg = package THEN Some(VersionRange(text, Unwrap(m)))
    ELSE find_with_regex_from(text, package, regex, Unwrap(m).end)

find_with_regex_from(text, package, regex, pos) ==
    find_map(text, package, regex, FirstMatch(regex, text, None, pos))

find_with_regex(text, package, regex) == find_with_regex_from(text, package, regex, 1)

\* A variant that knows only the first cargo pattern.
match_ecosystem_NoInlineTable(text, e, package) ==
    IF e = <<"n","p","m">> THEN find_with_regex(text, package, "npm")
    ELSE IF e \in {<<"p","y","p","i">>, <<"p","i","p">>, <<"p","y","t","h","o","n">>}
         THEN find_with_regex(text, package, "pypi")
    ELSE IF e \in {<<"c","a","r","g","o">>, <<"r","u","s","t">>}
         THEN find_with_regex(text, package, "cargo")
    ELSE None

\* The match of package_locator::find_package_version_range on the
\* lowercased ecosystem name e.
match_ecosystem(text, e, package) ==
    IF e = <<"n","p","m">> THEN find_with_regex(text, package, "npm")
    ELSE IF e \in {<<"p","y","p","i">>, <<"p","i","p">>, <<"p","y","t","h","o","n">>}
         THEN find_with_regex(text, package, "pypi")
    ELSE IF e \in {<<"c","a","r","g","o">>, <<"r","u","s","t">>}
         THEN or_else(find_with_regex(text, package, "cargo"),
                      find_with_regex(text, package, "cargo_inline"))
    ELSE None

\* package_locator::find_package_version_range
find_package_version_range(text, ecosystem, package) ==
    match_ecosystem(text, ToLowercase(ecosystem), package)

\* The patterns code_actions::find_version_range builds for the lowercased
\* ecosystem name e.
patterns(e) ==
    IF e = <<"n","p","m">> THEN <<"npm">>
    ELSE IF e \in {<<"p","y","p","i">>, <<"p","i","p">>, <<"p","y","t","h","o","n">>}
         THEN <<"pypi">>
    ELSE IF e \in {<<"c","a","r","g","o">>, <<"r","u","s","t">>}
         THEN <<"cargo", "cargo_inline">>
    ELSE <<>>

\* The loop over the patterns: the first match of the first pattern that
\* matches, each built for the escaped package name.
RECURSIVE first_captures(_, _, _)
first_captures(ps, package, text) ==
    IF ps = <<>> THEN None
    ELSE or_else(FirstMatch(Head(ps), text, Some(package), 1),
                 first_captures(Tail(ps), package, text))

\* The range and the matched version of the captures m.
matched_version(text, m) ==
    IF ~IsSome(m) THEN None
    ELSE Some([range |-> VersionRange(text, Unwrap(m)),
               version |-> SubSeq(text, Unwrap(m).ver_start, Unwrap(m).ver_end - 1)])

\* code_actions::find_version_range
find_version_range(ecosystem, package, text) ==
    matched_version(text, first_captures(patterns(ToLowercase(ecosystem)), package, text))

\* The TextEdit of the range found.
text_edit(found, new_version) ==
    IF ~IsSome(found) THEN None
    ELSE Some([range |-> Unwrap(found).range, new_text |-> new_version])

\* code_actions::find_version_edit: the TextEdit of a quick fix.
find_version_edit(ecosystem, package, new_version, document_text) ==
    text_edit(find_version_range(ecosystem, package, document_text), new_version)

\* The indices of the line feeds of a text.
LineFeeds(text) == {i \in 1..Len(text) : text[i] = "\n"}

\* The sum of len_utf16 over the characters of a text.
Utf16Len(s) == Len(s) + Cardinality({i \in 1..Len(s) : len_utf16(s[i]) = 2})

\* The loop of position_to_offset_utf16 over the characters of the line
\* that starts at index line_start and whose content ends just before
\* index line_end: utf16_col at a character is the UTF-16 length of the
\* line before it; the result is the byte offset of the character (or of
\* the end of the line) where utf16_col is the target column, None when
\* the column falls inside a character or past the end of the line.
utf16_column(text, line_start, line_end, target_col) ==
    LET hits == {k \in line_start..line_end :
                    Utf16Len(SubSeq(text, line_start, k - 1)) = target_col}
    IN  IF hits = {} THEN None
        ELSE Some(ByteOffset(text, CHOOSE k \in hits : TRUE))

\* The index just after the content of the line that starts at line_start:
\* its line feed, or the end of the text.
line_end_of(text, line_start) ==
    LET ends == {i \in LineFeeds(text) : i >= line_start} \cup {Len(text) + 1}
    IN  CHOOSE i \in ends : \A x \in ends : i <= x

\* The index at which the target line starts: after the target_line-th
\* line feed.
line_start_of(text, target_line) ==
    IF target_line = 0 THEN 1
    ELSE 1 + Max({i \in LineFeeds(text) :
                     Cardinality({j \in LineFeeds(text) : j <= i}) <= target_line})

\* lsp::position_to_offset_utf16: the byte offset of a position, None when
\* the line does not exist or the column is inside a character or past the
\* end of the line.
position_to_offset_utf16(text, position) ==
    IF Cardinality(LineFeeds(text)) < position.line THEN None
    ELSE LET line_start == line_start_of(text, position.line)
         IN  utf16_column(text, line_start, line_end_of(text, line_start),
                          position.character)

\* A variant that inserts the new text at `start` and removes nothing.
replace_range_Insert(text, start, end, new) ==
    SubSeq(text, 1, Cardinality({k \in 1..Len(text) : ByteOffset(text, k) < start}))
        \o new
        \o SubSeq(text, Cardinality({k \in 1..Len(text) : ByteOffset(text, k) < start}) + 1,
                  Len(text))

\* String::replace_range(start..end, new) on byte offsets that are
\* character boundaries.
replace_range(text, start, end, new) ==
    SubSeq(text, 1, Cardinality({k \in 1..Len(text) : ByteOffset(text, k) < start}))
        \o new
        \o SubSeq(text, Len(text) + 1 - Cardinality({k \in 1..Len(text) : ByteOffset(text, k) >= end}),
                  Len(text))

\* lsp::apply_content_changes: the changes applied in order; the result is
\* the text reached and whether every change applied (Err stops at the
\* first change that does not).
RECURSIVE apply_content_changes(_, _)
RECURSIVE apply_range(_, _, _, _, _)
apply_range(text, start, end, new, rest) ==
    IF ~IsSome(start) \/ ~IsSome(end) THEN [ok |-> FALSE, text |-> text]
    ELSE IF Unwrap(start) > Unwrap(end) \/ Unwrap(end) > ByteLen(text)
         THEN [ok |-> FALSE, text |-> text]
    ELSE apply_content_changes(replace_range(text, Unwrap(start), Unwrap(end), new), rest)

apply_content_changes(text, changes) ==
    IF changes = <<>> THEN [ok |-> TRUE, text |-> text]
    ELSE IF ~IsSome(Head(changes).range)
         THEN apply_content_changes(Head(changes).text, Tail(changes))
    ELSE apply_range(text,
                     position_to_offset_utf16(text, Unwrap(Head(changes).range).start),
                     position_to_offset_utf16(text, Unwrap(Head(changes).range).end),
                     Head(changes).text, Tail(changes))

(***************************************************************************)
(* The inputs of the locator: canonical manifests of the three ecosystems, *)
(* each declaring one package at one version, asked for under the names    *)
(* of their ecosystem and under other names, for the declared package and  *)
(* for one that is not declared.  The manifests here are ASCII; the        *)
(* package.json documents of the quick fix, which hold other characters,   *)
(* are manifests of the locator too.                                       *)
(***************************************************************************)

\* The package names and the versions of the manifests of a family.
Packages(family) ==
    CASE family = "npm" -> {<<"l","o","d","a","s","h">>, <<"l","e","f","t","-","p","a","d">>, <<"@","t","y","p","e","s","/","n","o","d","e">>}
      [] family = "pypi" -> {<<"r","e","q","u","e","s","t","s">>, <<"z","o","p","e",".","i","n","t","e","r","f","a","c","e">>, <<"a","_","b","-","1">>}
      [] family = "cargo" -> {<<"s","e","r","d","e">>, <<"t","o","k","i","o","-","u","t","i","l">>, <<"a","_","b","-","1">>}

Versions(family) ==
    CASE family = "npm" -> {<<"4",".","1","7",".","2","0">>, <<"^","1",".","0",".","0">>, <<"~","1",".","2">>, <<"1">>}
      [] family = "pypi" -> {<<"2",".","3","1",".","0">>, <<"1">>, <<"1",".","0","r","c","1">>, <<"2",".","0",".","p","o","s","t","1">>}
      [] family = "cargo" -> {<<"1",".","0",".","1","0","0">>, <<"1">>, <<"~","1",".","2">>, <<">","=","1",".","2",","," ","<","2">>}

\* A manifest is prefix, version, suffix: the version literal and the text
\* around it.
Manifests ==
    {[family |-> "npm", package |-> p, version |-> v,
          prefix |-> <<"{"," ","\"","d","e","p","e","n","d","e","n","c","i","e","s","\"",":"," ","{"," ","\"">> \o p \o <<"\"",":"," ","\"">>,
          suffix |-> <<"\""," ","}"," ","}">>] : p \in Packages("npm"), v \in Versions("npm")}
    \cup {[family |-> "npm", package |-> p, version |-> v,
          prefix |-> <<"{","\n"," "," ","\"","n","a","m","e","\"",":"," ","\"","d","e","m","o","\"",",","\n"," "," ","\"","d","e","p","e","n","d","e","n","c","i","e","s","\"",":"," ","{","\n"," "," "," "," ","\"","e","x","p","r","e","s","s","\"",":"," ","\"","4",".","1","8",".","2","\"",",","\n"," "," "," "," ","\"">> \o p \o <<"\"",":"," ","\"">>,
          suffix |-> <<"\"","\n"," "," ","}","\n","}">>] : p \in Packages("npm"), v \in Versions("npm")}
    \cup {[family |-> "pypi", package |-> p, version |-> v,
          prefix |-> <<>> \o p \o <<"=","=">>,
          suffix |-> <<"\n">>] : p \in Packages("pypi"), v \in Versions("pypi")}
    \cup {[family |-> "pypi", package |-> p, version |-> v,
          prefix |-> <<"#"," ","p","i","n","n","e","d","\n","f","l","a","s","k","=","=","2",".","0",".","1","\n","\n">> \o p \o <<"=","=">>,
          suffix |-> <<"\n">>] : p \in Packages("pypi"), v \in Versions("pypi")}
    \cup {[family |-> "cargo", package |-> p, version |-> v,
          prefix |-> <<"[","d","e","p","e","n","d","e","n","c","i","e","s","]","\n">> \o p \o <<" ","="," ","\"">>,
          suffix |-> <<"\"","\n">>] : p \in Packages("cargo"), v \in Versions("cargo")}
    \cup {[family |-> "cargo", package |-> p, version |-> v,
          prefix |-> <<"[","d","e","p","e","n","d","e","n","c","i","e","s","]","\n">> \o p \o <<" ","="," ","{"," ","v","e","r","s","i","o","n"," ","="," ","\"">>,
          suffix |-> <<"\"",","," ","f","e","a","t","u","r","e","s"," ","="," ","[","\"","d","e","r","i","v","e","\"","]"," ","}","\n">>] : p \in Packages("cargo"), v \in Versions("cargo")}
    \cup {[family |-> "cargo", package |-> p, version |-> v,
          prefix |-> <<"[","p","a","c","k","a","g","e","]","\n","n","a","m","e"," ","="," ","\"","d","e","m","o","\"","\n","v","e","r","s","i","o","n"," ","="," ","\"","0",".","1",".","0","\"","\n","\n","[","d","e","p","e","n","d","e","n","c","i","e","s","]","\n","l","o","g"," ","="," ","\"","0",".","4","\"","\n">> \o p \o <<" ","="," ","{"," ","v","e","r","s","i","o","n"," ","="," ","\"">>,
          suffix |-> <<"\""," ","}","\n">>] : p \in Packages("cargo"), v \in Versions("cargo")}

TextOf(m) == m.prefix \o m.version \o m.suffix

\* The names under which a manifest of a family is asked for.
EcosystemNames(family) ==
    CASE family = "npm" -> {<<"n","p","m">>, <<"N","P","M">>}
      [] family = "pypi" -> {<<"p","y","p","i">>, <<"p","i","p">>, <<"p","y","t","h","o","n">>, <<"P","y","P","I">>}
      [] family = "cargo" -> {<<"c","a","r","g","o">>, <<"r","u","s","t">>, <<"C","a","r","g","o">>}

OtherEcosystems == {<<"g","o">>, <<"m","a","v","e","n">>, <<"p","a","c","k","a","g","i","s","t">>, <<"u","n","k","n","o","w","n">>, <<>>}

NotDeclared == <<"t","o","k","i","o">>

(***************************************************************************)
(* The inputs of the quick fix: package.json documents on one line or on   *)
(* several, with a string before the version literal (on its line or on    *)
(* the line before) or after it that is ASCII, holds a two-byte character  *)
(* of the BMP, or holds a character outside the BMP.                       *)
(***************************************************************************)
Decorations == {<<"m","e">>, <<"J","o","s","U+00E9">>, <<"f","a","s","t"," ","U+1F680">>}
Recommended == {<<"4",".","1","7",".","2","1">>, <<"1","0",".","0",".","0">>}

QuickFixDocuments ==
    {[package |-> p, version |-> v,
          prefix |-> <<"{"," ","\"","a","u","t","h","o","r","\"",":"," ","\"">> \o d \o <<"\"",","," ","\"","d","e","p","e","n","d","e","n","c","i","e","s","\"",":"," ","{"," ","\"">> \o p \o <<"\"",":"," ","\"">>,
          suffix |-> <<"\""," ","}"," ","}">>] : p \in Packages("npm"), v \in Versions("npm"), d \in Decorations}
    \cup {[package |-> p, version |-> v,
          prefix |-> <<"{","\n"," "," ","\"","a","u","t","h","o","r","\"",":"," ","\"">> \o d \o <<"\"",",","\n"," "," ","\"","d","e","p","e","n","d","e","n","c","i","e","s","\"",":"," ","{"," ","\"">> \o p \o <<"\"",":"," ","\"">>,
          suffix |-> <<"\""," ","}","\n","}">>] : p \in Packages("npm"), v \in Versions("npm"), d \in Decorations}
    \cup {[package |-> p, version |-> v,
          prefix |-> <<"{"," ","\"","d","e","p","e","n","d","e","n","c","i","e","s","\"",":"," ","{"," ","\"">> \o p \o <<"\"",":"," ","\"">>,
          suffix |-> <<"\""," ","}",","," ","\"","a","u","t","h","o","r","\"",":"," ","\"">> \o d \o <<"\""," ","}">>] : p \in Packages("npm"), v \in Versions("npm"), d \in Decorations}

\* The package.json documents as manifests of the locator.
DecoratedManifests ==
    {[family |-> "npm", package |-> m.package, version |-> m.version,
      prefix |-> m.prefix, suffix |-> m.suffix] : m \in QuickFixDocuments}

\* A manifest is asked for under the names of its own ecosystem or under a
\* name of no ecosystem of the locator, for its package or for one it does
\* not declare.
LocateInputs ==
    UNION {
        {[fn |-> "locate", text |-> TextOf(m), ecosystem |-> e, package |-> q,
          declared |-> (q = m.package), version |-> m.version, family |-> m.family] :
            e \in EcosystemNames(m.family) \cup OtherEcosystems,
            q \in {m.package, NotDeclared}} : m \in Manifests \cup DecoratedManifests}

QuickFixInputs ==
    {[fn |-> "quick_fix", text |-> TextOf(m), ecosystem |-> <<"n","p","m">>,
      package |-> m.package, new_version |-> n, prefix |-> m.prefix, suffix |-> m.suffix] :
        m \in QuickFixDocuments, n \in Recommended}

(***************************************************************************)
(* Manifests that declare a package twice, with different versions: the    *)
(* two declarations in the plain string form, or for cargo each in the     *)
(* plain string form or as an inline table.                                *)
(***************************************************************************)
\* The version of the second declaration.
Later == <<"9",".","9",".","9">>

DuplicateManifests ==
    {[family |-> "npm", form |-> "string_string", package |-> p, version |-> v,
          prefix |-> <<"{"," ","\"","d","e","p","e","n","d","e","n","c","i","e","s","\"",":"," ","{"," ","\"">> \o p \o <<"\"",":"," ","\"">>,
          suffix |-> <<"\""," ","}",","," ","\"","d","e","v","D","e","p","e","n","d","e","n","c","i","e","s","\"",":"," ","{"," ","\"">> \o p \o <<"\"",":"," ","\"">> \o Later \o <<"\""," ","}"," ","}">>] : p \in Packages("npm"), v \in Versions("npm")}
    \cup {[family |-> "pypi", form |-> "string_string", package |-> p, version |-> v,
          prefix |-> <<>> \o p \o <<"=","=">>,
          suffix |-> <<"\n">> \o p \o <<"=","=">> \o Later \o <<"\n">>] : p \in Packages("pypi"), v \in Versions("pypi")}
    \cup {[family |-> "cargo", form |-> "string_string", package |-> p, version |-> v,
          prefix |-> <<"[","d","e","p","e","n","d","e","n","c","i","e","s","]","\n">> \o p \o <<" ","="," ","\"">>,
          suffix |-> <<"\"","\n","\n","[","d","e","v","-","d","e","p","e","n","d","e","n","c","i","e","s","]","\n">> \o p \o <<" ","="," ","\"">> \o Later \o <<"\"","\n">>] : p \in Packages("cargo"), v \in Versions("cargo")}
    \cup {[family |-> "cargo", form |-> "inline_inline", package |-> p, version |-> v,
          prefix |-> <<"[","d","e","p","e","n","d","e","n","c","i","e","s","]","\n">> \o p \o <<" ","="," ","{"," ","v","e","r","s","i","o","n"," ","="," ","\"">>,
          suffix |-> <<"\""," ","}","\n","\n","[","d","e","v","-","d","e","p","e","n","d","e","n","c","i","e","s","]","\n">> \o p \o <<" ","="," ","{"," ","v","e","r","s","i","o","n"," ","="," ","\"">> \o Later \o <<"\""," ","}","\n">>] : p \in Packages("cargo"), v \in Versions("cargo")}
    \cup {[family |-> "cargo", form |-> "string_inline", package |-> p, version |-> v,
          prefix |-> <<"[","d","e","p","e","n","d","e","n","c","i","e","s","]","\n">> \o p \o <<" ","="," ","\"">>,
          suffix |-> <<"\"","\n","\n","[","d","e","v","-","d","e","p","e","n","d","e","n","c","i","e","s","]","\n">> \o p \o <<" ","="," ","{"," ","v","e","r","s","i","o","n"," ","="," ","\"">> \o Later \o <<"\""," ","}","\n">>] : p \in Packages("cargo"), v \in Versions("cargo")}
    \cup {[family |-> "cargo", form |-> "inline_string", package |-> p, version |-> v,
          prefix |-> <<"[","d","e","p","e","n","d","e","n","c","i","e","s","]","\n">> \o p \o <<" ","="," ","{"," ","v","e","r","s","i","o","n"," ","="," ","\"">>,
          suffix |-> <<"\"",","," ","f","e","a","t","u","r","e","s"," ","="," ","[","\"","d","e","r","i","v","e","\"","]"," ","}","\n","\n","[","d","e","v","-","d","e","p","e","n","d","e","n","c","i","e","s","]","\n">> \o p \o <<" ","="," ","\"">> \o Later \o <<"\"","\n">>] : p \in Packages("cargo"), v \in Versions("cargo")}

\* A manifest with two declarations is asked for its package under the
\* names of its ecosystem.
DuplicateInputs ==
    UNION {
        {[fn |-> "locate_first", text |-> TextOf(m), ecosystem |-> e, package |-> m.package,
          version |-> m.version, before |-> Len(m.prefix), family |-> m.family,
          form |-> m.form] :
            e \in EcosystemNames(m.family)} : m \in DuplicateManifests}

\* One call of the locator or of the quick fix on any of the inputs.
InitLocator ==
    /\ ServerInit
    /\ input \in LocateInputs \cup QuickFixInputs \cup DuplicateInputs
    /\ output = None

PureFrame ==
    <<documents, analysis, pending, dirty_by_workspace, handlers, tasks, nevents,
      client_open, published, http_log, since_event, burst, shard, input>>

\* The package's version is located by package_locator and by the code
\* actions.
LocateCall ==
    /\ input.fn = "locate"
    /\ output = None
    /\ output' = Some([range |-> find_package_version_range(input.text, input.ecosystem,
                                                           input.package),
                       action |-> find_version_range(input.ecosystem, input.package,
                                                     input.text)])
    /\ UNCHANGED PureFrame

\* The version of a package that the text declares more than once is
\* located by package_locator and by the code actions.
LocateFirstCall ==
    /\ input.fn = "locate_first"
    /\ output = None
    /\ output' = Some([range |-> find_package_version_range(input.text, input.ecosystem,
                                                           input.package),
                       action |-> find_version_range(input.ecosystem, input.package,
                                                     input.text)])
    /\ UNCHANGED PureFrame

\* The client applies the edit of a quick fix: it comes back as a
\* didChange with the edit's range and text, applied by
\* apply_content_changes.
quick_fix(text, edit) ==
    [edit |-> edit,
     applied |-> IF IsSome(edit)
                 THEN apply_content_changes(text, <<[range |-> Some(Unwrap(edit).range),
                                                     text |-> Unwrap(edit).new_text]>>)
                 ELSE [ok |-> FALSE, text |-> text]]

\* The quick fix is built (build_code_actions: find_version_edit on the
\* document text) and the client's edit comes back as a didChange with the
\* edit's range and text, applied by apply_content_changes.
QuickFixCall ==
    /\ input.fn = "quick_fix"
    /\ output = None
    /\ output' = Some(quick_fix(input.text,
                                find_version_edit(input.ecosystem, input.package,
                                                  input.new_version, input.text)))
    /\ UNCHANGED PureFrame

NextLocator ==
    \/ LocateCall
    \/ LocateFirstCall
    \/ QuickFixCall

SpecLocator == InitLocator /\ [][NextLocator]_vars

(***************************************************************************)
(* The diagnostics of one analysis result (src/src/diagnostics.rs), with   *)
(* the fields and the message text the client receives.  The scheduler     *)
(* above takes the list as a whole (build_diagnostics); here it is built   *)
(* entry by entry.                                                         *)
(***************************************************************************)
\* language_id.filter(|v| !v.trim().is_empty()).map(|v| format!(" [lang: {}]", v))
\*     .unwrap_or_default()
lang_suffix(language_id) ==
    IF IsSome(language_id) /\ ~TrimIsEmpty(Unwrap(language_id))
    THEN <<" ","[","l","a","n","g",":"," ">> \o Unwrap(language_id) \o <<"]">>
    ELSE <<>>

\* diagnostics::default_range
default_range == [start |-> [line |-> 0, character |-> 0], end |-> [line |-> 0, character |-> 0]]

\* The pattern diagnostics::find_package_range builds for the lowercased
\* ecosystem name e: one pattern at most, for cargo the first of the two.
package_pattern(e) ==
    IF e = <<"n","p","m">> THEN <<"npm">>
    ELSE IF e \in {<<"p","y","p","i">>, <<"p","i","p">>, <<"p","y","t","h","o","n">>}
         THEN <<"pypi">>
    ELSE IF e \in {<<"c","a","r","g","o">>, <<"r","u","s","t">>} THEN <<"cargo">>
    ELSE <<>>

\* The range of the version group of the captures m.
captured_range(text, m) ==
    IF ~IsSome(m) THEN None ELSE Some(VersionRange(text, Unwrap(m)))

\* diagnostics::find_package_range
find_package_range(text, ecosystem, package) ==
    captured_range(text, first_captures(package_pattern(ToLowercase(ecosystem)), package, text))

\* Option::unwrap_or_else
unwrap_or_else(o, default) == IF IsSome(o) THEN Unwrap(o) ELSE default

\* The diagnostic build_diagnostics pushes for one affected package of one
\* vulnerability.
vulnerability_diagnostic(result, document_text, suffix, vuln, affected) ==
    [range |-> unwrap_or_else(find_package_range(document_text, result.ecosystem,
                                                 affected.name),
                              default_range),
     severity |-> Some(map_severity(vuln.severity)),
     source |-> Some(<<"v","u","l","n","e","r","a">>),
     message |-> vuln.summary \o <<":"," ">> \o affected.name \o <<" ","(">>
                    \o affected.version \o <<" ">> \o vuln.id \o <<")">> \o suffix]

\* The loops of build_diagnostics over the vulnerabilities and over the
\* affected packages of each.
RECURSIVE vulnerability_diagnostics(_, _, _, _)
vulnerability_diagnostics(vulns, result, document_text, suffix) ==
    IF vulns = <<>> THEN <<>>
    ELSE [i \in 1..Len(Head(vulns).affected_packages) |->
              vulnerability_diagnostic(result, document_text, suffix, Head(vulns),
                                       Head(vulns).affected_packages[i])]
         \o vulnerability_diagnostics(Tail(vulns), result, document_text, suffix)

\* format!("{}", n) of an unsigned number.
RECURSIVE Decimal(_)
Decimal(n) ==
    IF n < 10 THEN <<<<"0","1","2","3","4","5","6","7","8","9">>[n + 1]>>
    ELSE Decimal(n \div 10) \o Decimal(n % 10)

\* diagnostics::info_diagnostic
info_diagnostic(document_text, result, language_id) ==
    [range |-> IF document_text = <<>> THEN default_range
               ELSE [start |-> [line |-> 0, character |-> 0],
                     end |-> [line |-> 0, character |-> 1]],
     severity |-> Some("HINT"),
     source |-> Some(<<"v","u","l","n","e","r","a">>),
     message |-> <<"D","e","p","e","n","d","e","n","c","y"," ","s","c","a","n"," ","c","o","m","p","l","e","t","e",":"," ">> \o Decimal(result.metadata.total_vulnerabilities)
                    \o <<" ","v","u","l","n","e","r","a","b","i","l","i","t","i","e","s">> \o lang_suffix(language_id)]

\* A variant that returns the list as the loops left it.
push_if_empty_Never(diagnostics, info) == diagnostics

\* if diagnostics.is_empty() { diagnostics.push(info) }
push_if_empty(diagnostics, info) == IF diagnostics = <<>> THEN <<info>> ELSE diagnostics

\* diagnostics::build_diagnostics, entry by entry.
build_diagnostics_vec(result, document_text, language_id) ==
    push_if_empty(vulnerability_diagnostics(result.vulnerabilities, result, document_text,
                                            lang_suffix(language_id)),
                  info_diagnostic(document_text, result, language_id))

(***************************************************************************)
(* The inputs of build_diagnostics: results with no, one or two            *)
(* vulnerabilities, each with no, one or two affected packages, for a text *)
(* that declares the package lodash, one that declares nothing, and the    *)
(* empty text.                                                             *)
(***************************************************************************)
AffectedPackages ==
    {[name |-> n, version |-> <<"4",".","1","7",".","2","0">>] : n \in {<<"l","o","d","a","s","h">>, <<"t","o","k","i","o">>}}

AffectedLists ==
    {<<>>} \cup {<<a>> : a \in AffectedPackages}
           \cup {<<a, b>> : a \in AffectedPackages, b \in AffectedPackages}

VulnerabilityLists ==
    LET first == {[id |-> <<"G","H","S","A","-","1">>, summary |-> <<"P","r","o","t","o","t","y","p","e"," ","p","o","l","l","u","t","i","o","n">>, severity |-> s, affected_packages |-> l] :
                      s \in {<<"H","I","G","H">>, <<"l","o","w">>}, l \in AffectedLists}
        second == {[id |-> <<"C","V","E","-","2">>, summary |-> <<"R","e","D","o","S">>, severity |-> <<"M","e","d","i","u","m">>,
                    affected_packages |-> l] :
                      l \in {<<>>, <<[name |-> <<"l","o","d","a","s","h">>, version |-> <<"1",".","0">>]>>}}
    IN  {<<>>} \cup {<<v>> : v \in first} \cup {<<v, w>> : v \in first, w \in second}

DiagnosticTexts ==
    {<<>>, <<"{"," ","\"","d","e","p","e","n","d","e","n","c","i","e","s","\"",":"," ","{"," ","\"","l","o","d","a","s","h","\"",":"," ","\"","4",".","1","7",".","2","0","\""," ","}"," ","}">>,
     <<"[","d","e","p","e","n","d","e","n","c","i","e","s","]","\n","l","o","d","a","s","h"," ","="," ","{"," ","v","e","r","s","i","o","n"," ","="," ","\"","4",".","1","7",".","2","0","\""," ","}","\n","s","e","r","d","e"," ","="," ","\"","1","\"","\n">>}

DiagnosticInputs ==
    {[fn |-> "build_diagnostics",
      result |-> [ecosystem |-> e, vulnerabilities |-> vs,
                  metadata |-> [total_vulnerabilities |-> Len(vs)]],
      document_text |-> t, language_id |-> l] :
        e \in {<<"n","p","m">>, <<"C","a","r","g","o">>, <<"g","o">>},
        vs \in VulnerabilityLists, t \in DiagnosticTexts,
        l \in {None, Some(<<"j","s","o","n">>), Some(<<" ">>)}}

\* A requirements file with an indented line, for a result of the pypi
\* family that names the package with and without a leading space: the
\* pattern is built from the name as the result gives it.
IndentedDiagnosticInputs ==
    {[fn |-> "build_diagnostics",
      result |-> [ecosystem |-> e,
                  vulnerabilities |-> <<[id |-> <<"C","V","E","-","2">>, summary |-> <<"R","e","D","o","S">>,
                                         severity |-> <<"H","I","G","H">>,
                                         affected_packages |-> <<[name |-> n, version |-> <<"1">>]>>]>>,
                  metadata |-> [total_vulnerabilities |-> 1]],
      document_text |-> <<" "," ","a","=","=","1","\n">>, language_id |-> None] :
        e \in {<<"p","y","p","i">>, <<"P","I","P">>}, n \in {<<"a">>, <<" ","a">>}}

(***************************************************************************)
(* The code actions of the recommendations of a result                     *)
(* (src/src/code_actions.rs).                                              *)
(***************************************************************************)
\* code_actions::make_edit_action
make_edit_action(title, uri, edit, preferred) ==
    [title |-> title, kind |-> Some("quickfix"), diagnostics |-> None,
     edit |-> Some([changes |-> Some([u \in {uri} |-> <<edit>>])]),
     command |-> None, is_preferred |-> Some(preferred)]

\* code_actions::make_command_action
make_command_action(title, rec, strategy, language_id) ==
    [title |-> title, kind |-> Some("quickfix"), diagnostics |-> None, edit |-> None,
     command |->
        Some([title |-> title, command |-> "vulnera.applyRecommendation",
              arguments |->
                Some(<<[package |-> rec.package, ecosystem |-> rec.ecosystem,
                        strategy |-> strategy,
                        language_id |->
                            IF IsSome(language_id) /\ ~TrimIsEmpty(Unwrap(language_id))
                            THEN language_id ELSE None,
                        nearest_safe_above_current |-> rec.nearest_safe_above_current,
                        most_up_to_date_safe |-> rec.most_up_to_date_safe,
                        next_safe_minor_within_current_major |->
                            rec.next_safe_minor_within_current_major]>>)]),
     is_preferred |-> Some(strategy = "nearest_safe_above_current")]

\* A variant that never makes a text edit.
edit_or_command_AlwaysCommand(edit, title, uri, rec, strategy, language_id, preferred) ==
    make_command_action(title, rec, strategy, language_id)

\* if let Some(edit) = find_version_edit(..) { make_edit_action } else
\* { make_command_action }
edit_or_command(edit, title, uri, rec, strategy, language_id, preferred) ==
    IF IsSome(edit) THEN make_edit_action(title, uri, Unwrap(edit), preferred)
    ELSE make_command_action(title, rec, strategy, language_id)

\* The actions pushed for one strategy field of a recommendation: none when
\* the field is not populated.
strategy_actions(uri, ecosystem, document_text, rec, title_prefix, language_id, version, label, strategy, preferred) ==
    IF ~IsSome(version) THEN <<>>
    ELSE <<edit_or_command(find_version_edit(ecosystem, rec.package, Unwrap(version),
                                             document_text),
                           title_prefix \o label \o Unwrap(version),
                           uri, rec, strategy, language_id, preferred)>>

\* The body of the loop of build_code_actions for one recommendation.
recommendation_actions(uri, ecosystem, document_text, rec, title_prefix, language_id) ==
    strategy_actions(uri, ecosystem, document_text, rec, title_prefix, language_id,
                     rec.nearest_safe_above_current, <<" ","-",">"," ","n","e","a","r","e","s","t"," ","s","a","f","e"," ">>,
                     "nearest_safe_above_current", TRUE)
    \o strategy_actions(uri, ecosystem, document_text, rec, title_prefix, language_id,
                        rec.most_up_to_date_safe, <<" ","-",">"," ","l","a","t","e","s","t"," ","s","a","f","e"," ">>,
                        "most_up_to_date_safe", FALSE)
    \o strategy_actions(uri, ecosystem, document_text, rec, title_prefix, language_id,
                        rec.next_safe_minor_within_current_major, <<" ","-",">"," ","n","e","x","t"," ","s","a","f","e"," ","m","i","n","o","r"," ">>,
                        "next_safe_minor_within_current_major", FALSE)

\* language_id.filter(|v| !v.trim().is_empty()).map(|v| format!(" [{}]", v))
\*     .unwrap_or_default()
action_lang_suffix(language_id) ==
    IF IsSome(language_id) /\ ~TrimIsEmpty(Unwrap(language_id))
    THEN <<" ","[">> \o Unwrap(language_id) \o <<"]">>
    ELSE <<>>

\* code_actions::build_code_actions
RECURSIVE build_code_actions(_, _, _, _, _)
build_code_actions(uri, ecosystem, document_text, recommendations, language_id) ==
    IF recommendations = <<>> THEN <<>>
    ELSE recommendation_actions(uri, ecosystem, document_text, Head(recommendations),
                                Head(recommendations).ecosystem \o <<":"," ">>
                                    \o Head(recommendations).package
                                    \o action_lang_suffix(language_id),
                                language_id)
         \o build_code_actions(uri, ecosystem, document_text, Tail(recommendations),
                               language_id)

(***************************************************************************)
(* The inputs of build_code_actions: no, one or two recommendations, each  *)
(* for lodash or for a package the text does not declare, with any of the  *)
(* three strategy fields populated, against a package.json.                *)
(***************************************************************************)
Recommendations ==
    {[package |-> p, ecosystem |-> <<"n","p","m">>,
      nearest_safe_above_current |-> a, most_up_to_date_safe |-> b,
      next_safe_minor_within_current_major |-> c] :
        p \in {<<"l","o","d","a","s","h">>, <<"t","o","k","i","o">>},
        a \in {None, Some(<<"4",".","1","7",".","2","1">>)}, b \in {None, Some(<<"5",".","0",".","0">>)}, c \in {None, Some(<<"4",".","1","8",".","0">>)}}

RecommendationLists ==
    {<<>>} \cup {<<r>> : r \in Recommendations}
           \cup {<<r, q>> : r \in Recommendations, q \in Recommendations}

CodeActionInputs ==
    {[fn |-> "build_code_actions", uri |-> PkgJson, ecosystem |-> <<"n","p","m">>,
      document_text |-> <<"{"," ","\"","d","e","p","e","n","d","e","n","c","i","e","s","\"",":"," ","{"," ","\"","l","o","d","a","s","h","\"",":"," ","\"","4",".","1","7",".","2","0","\""," ","}"," ","}">>,
      recommendations |-> rs, language_id |-> l] :
        rs \in RecommendationLists, l \in {None, Some(<<"j","s","o","n">>)}}

\* One recommendation for a package named with or without a leading space
\* against a text with an indented line, read as a Cargo.toml and as a
\* requirements file.
IndentedCodeActionInputs ==
    {[fn |-> "build_code_actions", uri |-> PkgJson, ecosystem |-> e,
      document_text |-> <<" "," ","a"," ","="," ","\"","1","\"","\n">>,
      recommendations |-> <<[package |-> n, ecosystem |-> <<"c","a","r","g","o">>,
                             nearest_safe_above_current |-> Some(<<"2">>),
                             most_up_to_date_safe |-> None,
                             next_safe_minor_within_current_major |-> None]>>,
      language_id |-> None] :
        e \in {<<"c","a","r","g","o">>, <<"p","y","p","i">>}, n \in {<<"a">>, <<" ","a">>}}

(***************************************************************************)
(* The codeAction request (src/src/lsp.rs).  It reads the analysis cache   *)
(* and the document map at one instant and writes nothing.                 *)
(***************************************************************************)
\* A variant that leaves the actions as build_code_actions made them.
attach_diagnostics_Never(actions, diagnostics) == actions

\* .map(|mut action| { action.diagnostics = Some(diagnostics.clone()); .. })
attach_diagnostics(actions, diagnostics) ==
    [i \in 1..Len(actions) |-> [actions[i] EXCEPT !.diagnostics = Some(diagnostics)]]

\* Option::unwrap_or_default, of a string or a vector
unwrap_or_default(o) == IF IsSome(o) THEN Unwrap(o) ELSE <<>>

\* The body of code_action after the cache lookup succeeded
\* (ServerState::document_text, ServerState::document_snapshot).
cached_code_actions(uri, cached, snapshot) ==
    attach_diagnostics(
        build_code_actions(uri, cached.result.ecosystem,
                           IF IsSome(snapshot) THEN Unwrap(snapshot).text ELSE <<>>,
                           unwrap_or_default(cached.result.version_recommendations),
                           IF IsSome(snapshot) THEN Unwrap(snapshot).language_id ELSE None),
        cached.diagnostics)

\* VulneraLanguageServer::code_action
code_action(docs, cache, uri) ==
    IF ~IsSome(cache[uri]) THEN <<>>
    ELSE cached_code_actions(uri, Unwrap(cache[uri]), docs[uri])

(***************************************************************************)
(* The states a codeAction request can meet: a package.json that is open   *)
(* or closed, with or without a cached analysis; the cache entry is the    *)
(* one run_batch_analysis stores for a result (the result and the          *)
(* diagnostics built from it and the text that was analysed), and the      *)
(* stored text is the analysed one or a later edit of it.                  *)
(***************************************************************************)
AnalysedText == <<"{"," ","\"","d","e","p","e","n","d","e","n","c","i","e","s","\"",":"," ","{"," ","\"","l","o","d","a","s","h","\"",":"," ","\"","4",".","1","7",".","2","0","\""," ","}"," ","}">>
EditedText == <<"{","\n"," ","\"","l","o","d","a","s","h","\"",":"," ","\"","4",".","1","7",".","2","0","\"","\n","}">>

CachedResults ==
    {[ecosystem |-> <<"n","p","m">>, vulnerabilities |-> vs,
      version_recommendations |-> rs,
      metadata |-> [total_vulnerabilities |-> Len(vs)]] :
        vs \in {<<>>, <<[id |-> <<"G","H","S","A","-","1">>, summary |-> <<"R","e","D","o","S">>, severity |-> <<"h","i","g","h">>,
                         affected_packages |-> <<[name |-> <<"l","o","d","a","s","h">>, version |-> <<"4",".","1","7",".","2","0">>]>>]>>},
        rs \in {None} \cup {Some(l) : l \in {k \in RecommendationLists : Len(k) <= 1}}}

AnalysisCaches ==
    {None} \cup {Some([result |-> r,
                       diagnostics |-> build_diagnostics_vec(r, AnalysedText,
                                                             Some(<<"j","s","o","n">>))]) :
                    r \in CachedResults}

StoredDocuments ==
    {None} \cup {Some(Snapshot(PkgJson, t, 1, Some(<<"j","s","o","n">>))) :
                    t \in {AnalysedText, EditedText}}

CodeActionRequests == {[fn |-> "code_action", uri |-> PkgJson]}

\* params.content_changes.last().map(|change| change.text.clone())
\*     .unwrap_or(text)
last_text_or(changes, text) ==
    IF changes = <<>> THEN text ELSE changes[Len(changes)].text

\* if let Err(err) = apply_content_changes(&mut text, ..) { text = .. }
\* (applied: what the call left in `text`, and whether it returned Ok).
text_or_fallback(applied, changes) ==
    IF applied.ok THEN applied.text ELSE last_text_or(changes, applied.text)

\* VulneraLanguageServer::did_change, lines 103-124: the text of the
\* snapshot it stores, from the text of the stored snapshot and the changes
\* of the notification.
did_change_text(text, changes) ==
    text_or_fallback(apply_content_changes(text, changes), changes)

(***************************************************************************)
(* The inputs of apply_content_changes and of did_change: a text of two    *)
(* lines (the one of the tests of src/src/lsp.rs), a text with characters  *)
(* of two, three and four bytes, and the empty text; lists of at most      *)
(* MaxChanges changes,                                                     *)
(* each a full replacement or an edit between two of a few positions, some *)
(* of which do not resolve (past the end of a line, inside a surrogate     *)
(* pair, on a line the text has not).                                      *)
(***************************************************************************)
MaxChanges == 2

ChangePositions ==
    {[line |-> p[1], character |-> p[2]] :
        p \in {<<0, 0>>, <<0, 1>>, <<0, 2>>, <<0, 3>>, <<1, 1>>, <<1, 7>>, <<1, 14>>}}

ContentChanges ==
    {[range |-> None, text |-> <<"n","e","w">>]}
    \cup {[range |-> Some([start |-> s, end |-> e]), text |-> <<"5",".","0",".","0">>] :
            s \in ChangePositions, e \in ChangePositions}

ChangeLists == UNION {[1..n -> ContentChanges] : n \in 0..MaxChanges}

ChangedTexts == {<<>>, <<"d","e","p","e","n","d","e","n","c","i","e","s",":","\n","l","o","d","a","s","h","=","4",".","1","7",".","2","0","\n">>, <<"a","U+1F680","b","\n","U+00E9","U+212A">>}

ChangeInputs ==
    {[fn |-> f, text |-> t, changes |-> cs] :
        f \in {"apply_content_changes", "did_change"},
        t \in ChangedTexts, cs \in ChangeLists}

(***************************************************************************)
(* The inputs of workspace_key_for_path.  The function is private to       *)
(* state.rs: the server calls it with the workspace path of a stored       *)
(* snapshot, which the handlers set to the path of the document's URI      *)
(* (lsp.rs did_open, did_change, did_save), and the tests of the module    *)
(* call it with the path of the URI or with no workspace path.  The        *)
(* documents are those of the sessions and manifests directly under the    *)
(* root directory and in a directory below /w.                             *)
(***************************************************************************)
OpenedUris == URIS \cup {RootPkgJson, RootCargoToml, NestedPkgJson}

WorkspaceKeyInputs ==
    UNION {{[fn |-> "workspace_key_for_path", workspace_path |-> p, uri |-> u] :
                p \in {None, Some(UriPath(u))}} : u \in OpenedUris}

\* A vulnerability of a package is reported on a manifest and a quick fix
\* to a recommended version is offered for it.
AnchorInputs ==
    {[fn |-> "anchor", text |-> i.text, ecosystem |-> i.ecosystem, package |-> i.package,
      declared |-> i.declared, version |-> i.version, family |-> i.family,
      new_version |-> <<"9",".","9",".","9">>] : i \in LocateInputs}

(***************************************************************************)
(* One call of a function of the diagnostic and code-action synthesiser,   *)
(* of the document synchronisation or of the scheduler (the workspace key) *)
(* on any of its inputs, or one codeAction request.                        *)
(***************************************************************************)
\* The server with a stored snapshot and a cache entry for package.json and
\* no task under way.
ServerWith(snapshot, cached) ==
    /\ documents = [u \in URIS |-> IF u = PkgJson THEN snapshot ELSE None]
    /\ analysis = [u \in URIS |-> IF u = PkgJson THEN cached ELSE None]
    /\ pending = [k \in KEYS |-> None]
    /\ dirty_by_workspace = [k \in KEYS |-> None]
    /\ handlers = [n \in EventIds |-> NoHandler]
    /\ tasks = [n \in EventIds |-> NoTask]
    /\ nevents = 0
    /\ client_open = IF IsSome(snapshot) THEN {PkgJson} ELSE {}
    /\ published = [u \in URIS |-> <<>>]
    /\ http_log = <<>>
    /\ since_event = DebounceMs
    /\ burst = TRUE
    /\ shard = [u \in URIS |-> 0]

InitFunctions ==
    /\ \/ /\ ServerInit
          /\ input \in DiagnosticInputs \cup IndentedDiagnosticInputs
                        \cup CodeActionInputs \cup IndentedCodeActionInputs
                        \cup ChangeInputs \cup WorkspaceKeyInputs
                        \cup AnchorInputs
       \/ \E snapshot \in StoredDocuments, cached \in AnalysisCaches :
             ServerWith(snapshot, cached) /\ input \in CodeActionRequests
    /\ output = None

BuildDiagnosticsCall ==
    /\ input.fn = "build_diagnostics"
    /\ output = None
    /\ output' = Some(build_diagnostics_vec(input.result, input.document_text,
                                            input.language_id))
    /\ UNCHANGED PureFrame

BuildCodeActionsCall ==
    /\ input.fn = "build_code_actions"
    /\ output = None
    /\ output' = Some(build_code_actions(input.uri, input.ecosystem, input.document_text,
                                         input.recommendations, input.language_id))
    /\ UNCHANGED PureFrame

CodeActionCall ==
    /\ input.fn = "code_action"
    /\ output = None
    /\ output' = Some(code_action(documents, analysis, input.uri))
    /\ UNCHANGED PureFrame

ApplyContentChangesCall ==
    /\ input.fn = "apply_content_changes"
    /\ output = None
    /\ output' = Some(apply_content_changes(input.text, input.changes))
    /\ UNCHANGED PureFrame

DidChangeCall ==
    /\ input.fn = "did_change"
    /\ output = None
    /\ output' = Some(did_change_text(input.text, input.changes))
    /\ UNCHANGED PureFrame

WorkspaceKeyCall ==
    /\ input.fn = "workspace_key_for_path"
    /\ output = None
    /\ output' = Some(workspace_key_for_path(input.workspace_path, input.uri))
    /\ UNCHANGED PureFrame

\* The range build_diagnostics anchors a vulnerability of the package at
\* (diagnostics.rs lines 18-19) and the edit build_code_actions offers for
\* it (code_actions::find_version_edit), on the same text.
AnchorCall ==
    /\ input.fn = "anchor"
    /\ output = None
    /\ output' = Some([diagnostic |-> unwrap_or_else(find_package_range(input.text,
                                                        input.ecosystem, input.package),
                                                     default_range),
                       edit |-> find_version_edit(input.ecosystem, input.package,
                                                  input.new_version, input.text)])
    /\ UNCHANGED PureFrame

NextFunctions ==
    \/ WorkspaceKeyCall
    \/ AnchorCall
    \/ ApplyContentChangesCall
    \/ DidChangeCall
    \/ BuildDiagnosticsCall
    \/ BuildCodeActionsCall
    \/ CodeActionCall

SpecFunctions == InitFunctions /\ [][NextFunctions]_vars

(***************************************************************************)
(* Vocabulary of the properties.                                           *)
(***************************************************************************)
\* The workspace key and the ecosystem the server computes for a document
\* the client has opened.
KeyOfUri(u) == workspace_key_for_path(Some(UriPath(u)), u)
EcosystemOf(u) == detect_ecosystem(LastPathSegment(u), Some(LanguageOf(u)))

\* The notifications that have arrived so far.
Arrived == 1..nevents

\* The entry of a workspace key in the dirty map, as a set.
DirtySet(dirty, k) == IF IsSome(dirty[k]) THEN Unwrap(dirty[k]) ELSE {}

\* The requests sent for a workspace key.
RequestsFor(k) == {i \in 1..Len(http_log) : http_log[i].key = k}

\* A batch task that has drained the dirty set and has not yet finished its
\* HTTP call and its publications.
Executing(t) == t.pc \in {"drained", "http", "resp_log", "pub", "ins"}

\* Task n has sent its HTTP request.
HasSent(n) == \E i \in 1..Len(http_log) : http_log[i].task = n

\* The handler of notification n has gone through its first step.
Started(n) == handlers[n].pc \notin {"none", "arrived"}

\* Notification n is the last that arrived for its document.
LastOnUri(n) == \A m \in Arrived : m > n => handlers[m].uri # handlers[n].uri

(***************************************************************************)
(* C1.  A burst of didOpen/didChange/didSave notifications on one          *)
(* workspace key, each arriving less than DebounceMs after the one         *)
(* before, leads to exactly one analysis request for that key: so at no    *)
(* time have two requests been sent for it.                                *)
(***************************************************************************)
C1_OneRequestPerBurst ==
    \A k \in KEYS :
        ( /\ burst
          /\ \A m \in Arrived :
                /\ handlers[m].kind \in {"didOpen", "didChange", "didSave"}
                /\ KeyOfUri(handlers[m].uri) = k )
        => Cardinality(RequestsFor(k)) <= 1

(***************************************************************************)
(* C2.  No batch of workspace key k drains the dirty set or sends its      *)
(* request less than DebounceMs after the most recent schedule_analysis    *)
(* call that enqueued under k.                                             *)
(***************************************************************************)
C2_NoEarlyDispatch ==
    /\ \A n \in EventIds : ~tasks[n].early
    /\ \A i \in 1..Len(http_log) : ~http_log[i].early

(***************************************************************************)
(* C3.  For each workspace key at most one batch task is executing (has    *)
(* drained the dirty set and not yet finished its HTTP call and its        *)
(* publications).                                                          *)
(***************************************************************************)
C3_OneExecutingBatch ==
    \A a, b \in EventIds :
        (a # b /\ Executing(tasks[a]) /\ Executing(tasks[b]))
        => tasks[a].key # tasks[b].key

(***************************************************************************)
(* C4.  A schedule_analysis call made while the key's batch is executing   *)
(* does not abort the batch: in a session without didClose, no task that   *)
(* has sent its HTTP request is cancelled.                                 *)
(***************************************************************************)
C4_ExecutingBatchNotAborted ==
    (\A m \in Arrived : handlers[m].kind # "didClose")
    => \A n \in EventIds : ~(tasks[n].pc = "cancelled" /\ HasSent(n))

(***************************************************************************)
(* C5.  A task that is cancelled (by a later schedule_analysis for its     *)
(* key or by remove_document) has published no diagnostics and written no  *)
(* cache entry: a task performs all of its publications or none.  So a     *)
(* cancelled task has no publication to its name (a cache entry is         *)
(* written only after a publication).                                      *)
(***************************************************************************)
C5_CancelledPublishesNothing ==
    \A n \in EventIds : tasks[n].pc = "cancelled" => tasks[n].npub = 0


\* Handler n calls schedule_analysis in this step: after it stored its
\* snapshot, or at once for a didSave without a text.
CallsScheduleAnalysis(n) ==
    /\ handlers'[n].pc # handlers[n].pc
    /\ \/ handlers[n].pc = "stored"
       \/ /\ handlers[n].pc = "arrived"
          /\ handlers[n].kind = "didSave"
          /\ ~handlers[n].with_text

\* The ecosystem of the stored snapshot of the document, "none" without one.
StoredEcosystem(uri) ==
    IF IsSome(documents[uri]) THEN Unwrap(documents[uri]).ecosystem ELSE "none"

(***************************************************************************)
(* C7.  schedule_analysis on a document of unknown ecosystem leaves the    *)
(* dirty map and the pending handles unchanged and spawns no task; no      *)
(* request holds a file of unknown ecosystem; a session on documents of    *)
(* unknown ecosystem only sends no request.                                *)
(***************************************************************************)
C7_UnknownNeverAnalysed ==
    /\ [](\A i \in 1..Len(http_log) : \A j \in 1..Len(http_log[i].files) :
              http_log[i].files[j].ecosystem # "unknown")
    /\ []((\A m \in Arrived : EcosystemOf(handlers[m].uri) = "unknown") => http_log = <<>>)
    /\ [](\A n \in EventIds :
              (Started(n) /\ EcosystemOf(handlers[n].uri) = "unknown")
              => tasks[n].pc = "none" /\ handlers[n].pc \notin {"enqueued", "cfg_await"})
    /\ [][\A n \in EventIds :
            (CallsScheduleAnalysis(n) /\ StoredEcosystem(handlers[n].uri) = "unknown")
            => /\ handlers'[n].pc = "unk_pub"
               /\ dirty_by_workspace' = dirty_by_workspace
               /\ pending' = pending
               /\ tasks' = tasks]_vars

\* A session of two notifications on the document of unknown ecosystem has
\* been handled, with its empty publications.
C7_Witness ==
    /\ nevents = MaxEvents
    /\ \A m \in Arrived :
        /\ EcosystemOf(handlers[m].uri) = "unknown"
        /\ handlers[m].pc = "done"
    /\ \E m \in Arrived : handlers[m].kind = "didChange"
    /\ \E u \in URIS : Len(published[u]) = MaxEvents

(***************************************************************************)
(* C8.  Every publication for a document of unknown ecosystem carries an   *)
(* empty list.                                                             *)
(***************************************************************************)
C8_UnknownOnlyEmptyPublications ==
    \A u \in URIS :
        EcosystemOf(u) = "unknown"
        => \A i \in 1..Len(published[u]) : published[u][i].diagnostics = <<>>

(***************************************************************************)
(* C9.  After didClose(uri) and until the next didOpen(uri) the            *)
(* diagnostics of uri stay retracted, also when a batch holding uri was    *)
(* executing at the close: once the close has been handled and no later    *)
(* notification names uri, the analysis cache (which codeAction answers    *)
(* from) has no entry for uri.                                             *)
(***************************************************************************)
C9_ClosedHasNoCacheEntry ==
    \A n \in Arrived :
        ( /\ handlers[n].kind = "didClose"
          /\ handlers[n].pc \in {"close_pub", "done"}
          /\ LastOnUri(n) )
        => analysis[handlers[n].uri] = None

(***************************************************************************)
(* C10.  remove_document(uri) removes uri's snapshot and cache entry and   *)
(* takes uri out of its workspace's dirty set; it aborts and removes the   *)
(* workspace's pending task if and only if uri was the last member of      *)
(* that dirty set; everything else is left as it was.  As a property of    *)
(* the steps of the call by handler n: the first removes the snapshot and  *)
(* nothing else, the second the cache entry and nothing else, the third    *)
(* takes uri out of the dirty set of the key and goes on to the removal    *)
(* of the set and of the pending handle exactly when uri was the only      *)
(* member of the set it found; the removal of the handle aborts the task   *)
(* the handle names, and the call touches no pending handle and no task    *)
(* otherwise.                                                              *)
(***************************************************************************)
\* Handler n leaves the place `pc` of its remove_document call in this step.
Leaves(n, pc) == handlers[n].pc = pc /\ handlers'[n].pc # pc

RemovesSnapshot(n) ==
    /\ documents' = [documents EXCEPT ![handlers[n].uri] = None]
    /\ UNCHANGED <<analysis, dirty_by_workspace, pending, tasks>>

RemovesCacheEntry(n) ==
    /\ analysis' = [analysis EXCEPT ![handlers[n].uri] = None]
    /\ UNCHANGED <<documents, dirty_by_workspace, pending, tasks>>

RemovesFromDirtySet(n) ==
    LET uri == handlers[n].uri
        key == Unwrap(handlers[n].key)
        members == DirtySet(dirty_by_workspace, key)
    IN  /\ DirtySet(dirty_by_workspace', key) = members \ {uri}
        /\ \A k \in KEYS \ {key} : dirty_by_workspace'[k] = dirty_by_workspace[k]
        /\ handlers'[n].pc = (IF members = {uri} THEN "rm_set" ELSE "close_pub")
        /\ UNCHANGED <<documents, analysis, pending, tasks>>

RemovesEmptySet(n) ==
    /\ dirty_by_workspace' = [dirty_by_workspace EXCEPT ![Unwrap(handlers[n].key)] = None]
    /\ handlers'[n].pc = "rm_pending"
    /\ UNCHANGED <<documents, analysis, pending, tasks>>

RemovesAndAbortsPending(n) ==
    LET key == Unwrap(handlers[n].key)
    IN  /\ pending' = [pending EXCEPT ![key] = None]
        /\ \A p \in EventIds :
                IF pending[key] = Some(p) /\ Live(tasks[p])
                THEN tasks'[p].aborted
                ELSE tasks'[p] = tasks[p]
        /\ handlers'[n].pc = "close_pub"
        /\ UNCHANGED <<documents, analysis, dirty_by_workspace>>

C10_RemoveDocumentEffect ==
    [][\A n \in EventIds :
        /\ (Leaves(n, "arrived") /\ handlers'[n].pc = "rm_cache") => RemovesSnapshot(n)
        /\ Leaves(n, "rm_cache") => RemovesCacheEntry(n)
        /\ Leaves(n, "rm_dirty") => RemovesFromDirtySet(n)
        /\ Leaves(n, "rm_set") => RemovesEmptySet(n)
        /\ Leaves(n, "rm_pending") => RemovesAndAbortsPending(n)]_vars

\* A document has been closed while another of its workspace was dirty:
\* the other stays enqueued and the pending task stays asleep.
C10_Witness ==
    \E n \in Arrived :
        /\ handlers[n].kind = "didClose"
        /\ handlers[n].pc = "close_pub"
        /\ nevents = n
        /\ LET key == KeyOfUri(handlers[n].uri)
           IN  /\ DirtySet(dirty_by_workspace, key) # {}
               /\ IsSome(pending[key])
               /\ tasks[Unwrap(pending[key])].pc = "sleep"

(***************************************************************************)
(* C11.  Every publication of a batch task carries the version of the      *)
(* snapshot it was produced from: a per-file publication (findings or the  *)
(* per-file failure) the version of the snapshot the task took when it     *)
(* drained, with findings anchored in that snapshot's text; a whole-batch  *)
(* failure publication the version of the snapshot the task read from the  *)
(* store for it.  The snapshots of a task are those it found in the store  *)
(* when it looked its drained URIs up, and they do not change while it     *)
(* runs.                                                                   *)
(***************************************************************************)
LastPublication(pub, u) == pub[u][Len(pub[u])]

\* Task n reads the snapshot of a document for a whole-batch failure
\* publication in this step.
ReadsForFailure(n) == tasks[n].pc = "fail_pub" /\ tasks'[n].pc = "fail_await"

C11_PublicationsCarrySnapshotVersion ==
    [][ /\ \A u \in URIS :
            (published'[u] # published[u] /\ LastPublication(published', u).src = "task")
            => LET p == LastPublication(published', u)
                   t == tasks[p.id]
               IN  IF t.pc = "pub"
                   THEN \E j \in 1..Len(t.snaps) :
                        /\ t.snaps[j].uri = u
                        /\ p.version = Some(t.snaps[j].version)
                        /\ p.diagnostics[1].severity = "Finding"
                           => p.diagnostics[1].text = t.snaps[j].text
                   ELSE /\ t.pc = "fail_await"
                        /\ IsSome(t.held)
                        /\ Unwrap(t.held).uri = u
                        /\ p.version = Some(Unwrap(t.held).version)
        /\ \A n \in EventIds :
            /\ ReadsForFailure(n)
               => LET read == Unwrap(tasks'[n].held)
                  IN  /\ IsSome(documents[read.uri])
                      /\ read.version = Unwrap(documents[read.uri]).version
            /\ tasks[n].pc = "fail_await" => tasks'[n].held \in {tasks[n].held, None}
            /\ tasks[n].pc = "reading"
               => \/ tasks'[n].snaps \in {tasks[n].snaps, <<>>}
                  \/ /\ IsSome(documents[Head(tasks[n].uris)])
                     /\ tasks'[n].snaps =
                            Append(tasks[n].snaps, Unwrap(documents[Head(tasks[n].uris)]))
            /\ Executing(tasks[n])
               => tasks'[n].snaps \in {tasks[n].snaps, <<>>} ]_vars

\* A task has published findings for a snapshot the store has since
\* replaced: the publication carries the older version and text.
C11_Witness ==
    \E u \in URIS : \E i \in 1..Len(published[u]) :
        /\ published[u][i].src = "task"
        /\ published[u][i].diagnostics # <<>>
        /\ published[u][i].diagnostics[1].severity = "Finding"
        /\ IsSome(documents[u])
        /\ published[u][i].version # Some(Unwrap(documents[u]).version)
        /\ published[u][i].diagnostics[1].text # Unwrap(documents[u]).text



(***************************************************************************)
(* C12: for each URI, the version stored in the document store never       *)
(* decreases from one mutation of the snapshot to the next (the client     *)
(* sends increasing versions), and a didSave leaves the stored version as  *)
(* it was, whatever the interleaving of the handlers at their awaits.      *)
(***************************************************************************)
C12_VersionNeverDecreases ==
    [][ \A u \in URIS :
            (IsSome(documents[u]) /\ IsSome(documents'[u]))
            => /\ Unwrap(documents'[u]).version >= Unwrap(documents[u]).version
               /\ (\E n \in EventIds :
                        /\ handlers[n].kind = "didSave"
                        /\ handlers[n].uri = u
                        /\ handlers[n].pc = "arrived"
                        /\ handlers'[n].pc # "arrived")
                  => Unwrap(documents'[u]).version = Unwrap(documents[u]).version ]_vars


\* Notification n has been taken up by its handler.
Handled(n) == handlers[n].pc \notin {"none", "arrived"}

\* The server has handled a didOpen for u and no didClose for u after it.
OpenOnServer(u) ==
    \E n \in EventIds :
        /\ handlers[n].kind = "didOpen" /\ handlers[n].uri = u /\ Handled(n)
        /\ \A m \in (n + 1)..MaxReopen :
                ~(handlers[m].kind = "didClose" /\ handlers[m].uri = u /\ Handled(m))

(***************************************************************************)
(* C13: the document store holds a snapshot for a URI exactly when a       *)
(* didOpen for it has been handled and no didClose after it: no didChange  *)
(* or didSave creates a snapshot for a URI that has none.                  *)
(***************************************************************************)
C13_SnapshotIffOpen ==
    \A u \in URIS : IsSome(documents[u]) <=> OpenOnServer(u)


\* The publications of task n for u that consist of a single Error
\* diagnostic whose message starts with "Dependency scan failed: ".
FailurePublications(n, u) ==
    {i \in 1..Len(published[u]) :
        /\ published[u][i].src = "task"
        /\ published[u][i].id = n
        /\ Len(published[u][i].diagnostics) = 1
        /\ published[u][i].diagnostics[1].severity = "Error"
        /\ published[u][i].diagnostics[1].prefix = "Dependency scan failed: "}

\* Task n has run a batch that failed as a whole, and is over.
FailedBatchOver(n) == tasks[n].err # "" /\ tasks[n].pc \in {"done", "cancelled"}

(***************************************************************************)
(* C14: when the batch of a task fails as a whole, every document stored   *)
(* under the task's workspace key at that time (and still stored) gets     *)
(* exactly one publication of the task made of a single Error diagnostic   *)
(* starting with "Dependency scan failed: ", and window/showMessage is     *)
(* sent exactly once for the batch.                                        *)
(***************************************************************************)
C14_FailureReportedOncePerDocument ==
    \A n \in EventIds :
        FailedBatchOver(n)
        => /\ tasks[n].shown = 1
           /\ \A u \in tasks[n].failed_docs :
                IsSome(documents[u]) => Cardinality(FailurePublications(n, u)) = 1


\* The publications of task n for u that carry a per-file result of its
\* batch: the diagnostics built from a result, or the failure diagnostic
\* of a result with `error` set.
ResultPublications(n, u) ==
    {i \in 1..Len(published[u]) :
        /\ published[u][i].src = "task"
        /\ published[u][i].id = n
        /\ published[u][i].diagnostics[1].detail # tasks[n].err}

(***************************************************************************)
(* C15: a batch that fails as a whole (HTTP error, cardinality mismatch,   *)
(* unknown file_id) has published no per-file result and has written no    *)
(* entry of the analysis cache: nothing is published or cached before the  *)
(* failure is detected.                                                    *)
(***************************************************************************)
C15_FailedBatchPublishesNoResult ==
    \A n \in EventIds :
        tasks[n].err # ""
        => \A u \in URIS :
            /\ ResultPublications(n, u) = {}
            /\ IsSome(analysis[u])
               => \A i \in 1..Len(published[u]) :
                    (published[u][i].src = "task" /\ published[u][i].id = n)
                    => published[u][i].diagnostics # Unwrap(analysis[u]).diagnostics


\* The publications of task n for u, in the list pub.
PublicationsOf(pub, n, u) ==
    {i \in 1..Len(pub[u]) : pub[u][i].src = "task" /\ pub[u][i].id = n}

(***************************************************************************)
(* C16: in a batch that succeeds, a result with `error` set gives its      *)
(* document the single failure diagnostic and leaves the document's cache  *)
(* entry as it is; every other result gives its document the diagnostics   *)
(* built from it and overwrites the document's cache entry with the result *)
(* and those diagnostics; at the end of the batch every document of the    *)
(* batch has exactly that one publication of the batch.                    *)
(***************************************************************************)
C16_PerFileErrorKeepsCache ==
    [][ \A n \in EventIds :
            LET t == tasks[n]
            IN  /\ (t.pc = "pub" /\ tasks'[n].pc # "cancelled" /\ tasks'[n].npub # t.npub)
                   => LET result == t.results[t.i]
                          snapshot == Unwrap(Paired(t, t.i))
                          p == LastPublication(published', snapshot.uri)
                      IN  /\ Len(published'[snapshot.uri]) = Len(published[snapshot.uri]) + 1
                          /\ p.src = "task" /\ p.id = n
                          /\ analysis' = analysis
                          /\ IF IsSome(result.error)
                             THEN /\ p.diagnostics =
                                        <<build_analysis_failure_diagnostic(Unwrap(result.error))>>
                                  /\ tasks'[n].pc # "ins"
                             ELSE /\ p.diagnostics =
                                        build_diagnostics(result, snapshot.text, snapshot.language_id)
                                  /\ tasks'[n].pc = "ins"
                /\ (t.pc = "ins" /\ tasks'[n].pc # "ins")
                   => LET result == t.results[t.i]
                          snapshot == Unwrap(Paired(t, t.i))
                      IN  /\ ~IsSome(result.error)
                          /\ analysis' = [analysis EXCEPT ![snapshot.uri] =
                                Some([result |-> result,
                                      diagnostics |-> build_diagnostics(result, snapshot.text,
                                                                        snapshot.language_id)])]
                /\ (t.pc \in {"pub", "ins"} /\ tasks'[n].pc = "fin")
                   => \A i \in 1..Len(t.results) :
                        LET u == Unwrap(Paired(t, i)).uri
                            own == PublicationsOf(published', n, u)
                        IN  /\ Cardinality(own) = 1
                            /\ \A j \in own :
                                published'[u][j].diagnostics[1].severity =
                                    IF IsSome(t.results[i].error) THEN "Error" ELSE "Finding" ]_vars

\* A batch of two documents is over: the one whose result carried `error`
\* has the failure diagnostic as its only publication and no cache entry,
\* the other has its findings published and cached.
C16_Witness ==
    \E n \in EventIds, u, v \in URIS :
        /\ u # v
        /\ tasks[n].pc \in {"fin", "done"} /\ tasks[n].err = ""
        /\ PublicationsOf(published, n, u) = {1} /\ Len(published[u]) = 1
        /\ published[u][1].diagnostics = <<build_analysis_failure_diagnostic("file error")>>
        /\ ~IsSome(analysis[u])
        /\ PublicationsOf(published, n, v) = {1} /\ Len(published[v]) = 1
        /\ IsSome(analysis[v])
        /\ Unwrap(analysis[v]).diagnostics = published[v][1].diagnostics
        /\ published[v][1].diagnostics[1].severity = "Finding"


(***************************************************************************)
(* C17: in every reachable state, the diagnostics of a document's entry in *)
(* the analysis cache are the diagnostics of the latest publication for    *)
(* the document.                                                           *)
(***************************************************************************)
C17_CacheMatchesLastPublication ==
    \A u \in URIS :
        IsSome(analysis[u])
        => /\ Len(published[u]) > 0
           /\ Unwrap(analysis[u]).diagnostics = LastPublication(published, u).diagnostics


\* s spells the lower-case word w in some mix of ASCII cases.
SpellsIgnoringCase(s, w) ==
    /\ Len(s) = Len(w)
    /\ \A i \in 1..Len(w) : s[i] \in {w[i], UpperOf(w[i])}

(***************************************************************************)
(* C20: the severity mapping answers for every string, whatever its case:  *)
(* Error for critical and high, Warning for medium, Information for low,   *)
(* Hint for every other string.                                            *)
(***************************************************************************)
C20_SeverityMapping ==
    (input.fn = "map_severity" /\ IsSome(output))
    => LET s == input.severity
       IN  Unwrap(output) =
            IF SpellsIgnoringCase(s, <<"c","r","i","t","i","c","a","l">>) THEN "ERROR"
            ELSE IF SpellsIgnoringCase(s, <<"h","i","g","h">>) THEN "ERROR"
            ELSE IF SpellsIgnoringCase(s, <<"m","e","d","i","u","m">>) THEN "WARNING"
            ELSE IF SpellsIgnoringCase(s, <<"l","o","w">>) THEN "INFORMATION"
            ELSE "HINT"

\* The mapping has answered Error for a spelling of `high` with capitals.
C20_Witness ==
    /\ input.fn = "map_severity"
    /\ IsSome(output)
    /\ input.severity = <<"H","i","G","h">>
    /\ Unwrap(output) = "ERROR"

\* The substring a range covers: the characters from the offset of its
\* start position up to the offset of its end position.
CoveredText(text, range) ==
    LET s == position_to_offset_utf16(text, range.start)
        e == position_to_offset_utf16(text, range.end)
        covered == {k \in 1..Len(text) :
                       Unwrap(s) <= ByteOffset(text, k) /\ ByteOffset(text, k) < Unwrap(e)}
    IN  IF ~IsSome(s) \/ ~IsSome(e) THEN <<>>
        ELSE IF covered = {} THEN <<>>
        ELSE SubSeq(text, CHOOSE k \in covered : \A x \in covered : k <= x, Max(covered))

\* Both locators (package_locator and the code actions) have found the
\* version v in the text, have found nothing.
LocatedVersion(text, o, v) ==
    /\ IsSome(o.range)
    /\ CoveredText(text, Unwrap(o.range)) = v
    /\ IsSome(o.action)
    /\ CoveredText(text, Unwrap(o.action).range) = v
    /\ Unwrap(o.action).version = v

LocatedNothing(o) == o.range = None /\ o.action = None

\* The names of the three ecosystems of the locator, whatever their case.
NamesLocatorEcosystem(e) ==
    \E w \in {<<"n","p","m">>, <<"p","y","p","i">>, <<"p","i","p">>,
              <<"p","y","t","h","o","n">>, <<"c","a","r","g","o">>, <<"r","u","s","t">>} :
        SpellsIgnoringCase(e, w)

(***************************************************************************)
(* C18: for the ecosystems of the locator, package name and non-empty      *)
(* version written into a canonical manifest, the locator returns a range  *)
(* whose covered substring equals the version; for a package that is not   *)
(* declared in the text, or for any other ecosystem, it returns not-found. *)
(* The ecosystems are read as the locator's table of names has them (npm,  *)
(* pypi with pip and python, cargo with rust, in any case of the letters), *)
(* and the substring a range covers as the client resolves it, in UTF-16   *)
(* columns.                                                                *)
(***************************************************************************)
C18_LocatorRoundTrip ==
    (input.fn = "locate" /\ IsSome(output))
    => IF NamesLocatorEcosystem(input.ecosystem) /\ input.declared
       THEN LocatedVersion(input.text, Unwrap(output), input.version)
       ELSE LocatedNothing(Unwrap(output))


(***************************************************************************)
(* C19: the positions of the locator are UTF-16 columns: whatever          *)
(* characters stand before the version literal, the edit of a quick fix,   *)
(* applied by the incremental edit application of the document store,      *)
(* replaces exactly the version literal of the package by the recommended  *)
(* version and leaves the rest of the text as it was.                      *)
(***************************************************************************)
C19_QuickFixReplacesVersion ==
    (input.fn = "quick_fix" /\ IsSome(output))
    => /\ IsSome(Unwrap(output).edit)
       /\ Unwrap(output).applied.ok
       /\ Unwrap(output).applied.text = input.prefix \o input.new_version \o input.suffix


\* The (vulnerability, affected package) pairs of a result, as indices, and
\* the i-th of them in the order of the result.
PairIndices(result) ==
    UNION {{<<v, a>> : a \in 1..Len(result.vulnerabilities[v].affected_packages)} :
              v \in 1..Len(result.vulnerabilities)}

PairAt(result, i) ==
    CHOOSE p \in PairIndices(result) :
        Cardinality({q \in PairIndices(result) :
                        q[1] < p[1] \/ (q[1] = p[1] /\ q[2] <= p[2])}) = i

StartsWith(s, prefix) == Len(prefix) <= Len(s) /\ SubSeq(s, 1, Len(prefix)) = prefix

RangeOf(l1, c1, l2, c2) ==
    [start |-> [line |-> l1, character |-> c1], end |-> [line |-> l2, character |-> c2]]

\* The range of the version literal the locator finds for the package: the
\* patterns of the ecosystem, built for the escaped package name, tried in
\* order (code_actions::find_version_range).
Located(text, ecosystem, package) ==
    LET found == find_version_range(ecosystem, package, text)
    IN  IF IsSome(found) THEN Some(Unwrap(found).range) ELSE None

\* Diagnostic d reports the pair p of the result on the text.
ReportsPair(d, result, text, p) ==
    LET vuln == result.vulnerabilities[p[1]]
        affected == vuln.affected_packages[p[2]]
    IN  /\ d.source = Some(<<"v","u","l","n","e","r","a">>)
        /\ StartsWith(d.message, vuln.summary \o <<":"," ">> \o affected.name \o <<" ">>)
        /\ Located(text, result.ecosystem, affected.name) = None
              => d.range = RangeOf(0, 0, 0, 0)

(***************************************************************************)
(* C21: build_diagnostics returns one diagnostic per (vulnerability,       *)
(* affected package) pair, in order, each with source "vulnera" and the    *)
(* range (0,0)-(0,0) when the package is not located; with no pair it      *)
(* returns one Hint diagnostic at (0,0)-(0,1), at (0,0)-(0,0) for the      *)
(* empty text; the list is never empty.                                    *)
(***************************************************************************)
C21_OneDiagnosticPerPair ==
    (input.fn = "build_diagnostics" /\ IsSome(output))
    => LET out == Unwrap(output)
           pairs == PairIndices(input.result)
       IN  /\ out # <<>>
           /\ IF pairs = {}
              THEN /\ Len(out) = 1
                   /\ out[1].severity = Some("HINT")
                   /\ out[1].range = IF input.document_text = <<>> THEN RangeOf(0, 0, 0, 0)
                                     ELSE RangeOf(0, 0, 0, 1)
              ELSE /\ Len(out) = Cardinality(pairs)
                   /\ \A i \in 1..Len(out) :
                        ReportsPair(out[i], input.result, input.document_text,
                                    PairAt(input.result, i))

\* Three pairs of two vulnerabilities have been reported in order, lodash
\* at its version and tokio, which the text does not declare, at (0,0).
C21_Witness ==
    /\ input.fn = "build_diagnostics"
    /\ IsSome(output)
    /\ Len(Unwrap(output)) = 3
    /\ Len(input.result.vulnerabilities) = 2
    /\ input.result.vulnerabilities[1].affected_packages[1].name = <<"l","o","d","a","s","h">>
    /\ input.result.vulnerabilities[1].affected_packages[2].name = <<"t","o","k","i","o">>
    /\ Unwrap(output)[1].range = RangeOf(0, 31, 0, 38)
    /\ Unwrap(output)[2].range = RangeOf(0, 0, 0, 0)
    /\ StartsWith(Unwrap(output)[3].message, <<"R","e","D","o","S">>)



(***************************************************************************)
(* C22.  The code actions of a list of recommendations.                    *)
(***************************************************************************)
StrategyNames ==
    <<"nearest_safe_above_current", "most_up_to_date_safe",
      "next_safe_minor_within_current_major">>

StrategyField(rec, k) ==
    CASE k = 1 -> rec.nearest_safe_above_current
      [] k = 2 -> rec.most_up_to_date_safe
      [] k = 3 -> rec.next_safe_minor_within_current_major

\* The populated strategy fields of a list of recommendations, as pairs of
\* the index of the recommendation and the index of the strategy.
PopulatedSlots(recs) ==
    {s \in (1..Len(recs)) \X (1..3) : IsSome(StrategyField(recs[s[1]], s[2]))}

\* The place of a populated slot in the order of the recommendations and,
\* within one recommendation, of the three strategies.
SlotPlace(recs, s) ==
    Cardinality({t \in PopulatedSlots(recs) :
                    t[1] < s[1] \/ (t[1] = s[1] /\ t[2] <= s[2])})

IsEditOf(action, uri, range, version) ==
    /\ action.command = None
    /\ action.edit = Some([changes |-> Some([u \in {uri} |->
                                <<[range |-> range, new_text |-> version]>>])])

IsCommandOf(action, rec, k) ==
    /\ action.edit = None
    /\ IsSome(action.command)
    /\ Unwrap(action.command).command = "vulnera.applyRecommendation"
    /\ Unwrap(Unwrap(action.command).arguments)[1].strategy = StrategyNames[k]
    /\ Unwrap(Unwrap(action.command).arguments)[1].package = rec.package

ActionOfSlot(action, in, rec, k, located) ==
    /\ action.is_preferred = Some(k = 1)
    /\ IF IsSome(located)
       THEN IsEditOf(action, in.uri, Unwrap(located), Unwrap(StrategyField(rec, k)))
       ELSE IsCommandOf(action, rec, k)

\* C22: build_code_actions gives one action for each populated strategy
\* field, recommendation after recommendation in the order of the input and
\* within a recommendation in the order nearest_safe_above_current,
\* most_up_to_date_safe, next_safe_minor_within_current_major; the action is
\* a text edit that replaces the version range the locator finds for the
\* package by the version of the strategy, or, when the locator finds none,
\* a vulnera.applyRecommendation command; isPreferred is true exactly for
\* nearest_safe_above_current.
C22_ActionsPerStrategy ==
    (input.fn = "build_code_actions" /\ IsSome(output)) =>
        /\ Len(Unwrap(output)) = Cardinality(PopulatedSlots(input.recommendations))
        /\ \A s \in PopulatedSlots(input.recommendations) :
              ActionOfSlot(Unwrap(output)[SlotPlace(input.recommendations, s)], input,
                           input.recommendations[s[1]], s[2],
                           Located(input.document_text, input.ecosystem,
                                   input.recommendations[s[1]].package))

\* Two recommendations, the first for a package the text does not declare
\* with its last two strategies populated, the second for lodash with the
\* first and the last: two commands, then two edits, the third action the
\* only preferred one.
C22_Witness ==
    /\ input.fn = "build_code_actions"
    /\ IsSome(output)
    /\ Len(input.recommendations) = 2
    /\ Len(Unwrap(output)) = 4
    /\ IsSome(Unwrap(output)[1].command)
    /\ IsSome(Unwrap(output)[2].command)
    /\ IsSome(Unwrap(output)[3].edit)
    /\ IsSome(Unwrap(output)[4].edit)
    /\ Unwrap(output)[3].is_preferred = Some(TRUE)
    /\ Unwrap(output)[4].is_preferred = Some(FALSE)
    /\ Unwrap(Unwrap(Unwrap(output)[3].edit).changes)[input.uri][1].range
            = RangeOf(0, 31, 0, 38)


(***************************************************************************)
(* C23.  The codeAction request.                                           *)
(***************************************************************************)
CachedFor(u) == Unwrap(analysis[u])
CurrentText(u) == IF IsSome(documents[u]) THEN Unwrap(documents[u]).text ELSE <<>>
CachedRecommendations(u) ==
    IF IsSome(CachedFor(u).result.version_recommendations)
    THEN Unwrap(CachedFor(u).result.version_recommendations) ELSE <<>>

\* C23: a codeAction request for a URI without a cached analysis is
\* answered by the empty list; with a cached analysis it is answered by one
\* action for each populated strategy of the cached recommendations, in
\* their order, an edit of the version range found in the text the document
\* has now (a command when none is found), and every action carries the
\* cached diagnostics of the URI.
C23_CodeActionFromCache ==
    (input.fn = "code_action" /\ IsSome(output)) =>
        IF ~IsSome(analysis[input.uri]) THEN Unwrap(output) = <<>>
        ELSE /\ Len(Unwrap(output)) = Cardinality(PopulatedSlots(CachedRecommendations(input.uri)))
             /\ \A i \in 1..Len(Unwrap(output)) :
                    Unwrap(output)[i].diagnostics = Some(CachedFor(input.uri).diagnostics)
             /\ \A s \in PopulatedSlots(CachedRecommendations(input.uri)) :
                    ActionOfSlot(Unwrap(output)[SlotPlace(CachedRecommendations(input.uri), s)],
                                 input, CachedRecommendations(input.uri)[s[1]], s[2],
                                 Located(CurrentText(input.uri),
                                         CachedFor(input.uri).result.ecosystem,
                                         CachedRecommendations(input.uri)[s[1]].package))

\* The document was edited after its analysis: the one action edits the
\* version where it stands now, on the second line, and carries the cached
\* diagnostic, whose range is the place of the version in the analysed text.
C23_Witness ==
    /\ input.fn = "code_action"
    /\ IsSome(output)
    /\ IsSome(analysis[input.uri])
    /\ CurrentText(input.uri) = EditedText
    /\ Len(Unwrap(output)) = 1
    /\ IsSome(Unwrap(output)[1].edit)
    /\ Unwrap(Unwrap(Unwrap(output)[1].edit).changes)[input.uri][1].range
            = RangeOf(1, 12, 1, 19)
    /\ IsSome(Unwrap(output)[1].diagnostics)
    /\ Len(Unwrap(Unwrap(output)[1].diagnostics)) = 1
    /\ Unwrap(Unwrap(output)[1].diagnostics)[1].range = RangeOf(0, 31, 0, 38)
    /\ Unwrap(Unwrap(output)[1].diagnostics)[1].severity = Some("ERROR")


(***************************************************************************)
(* C24.  Repeated analysis of one snapshot under a deterministic service.  *)
(***************************************************************************)
\* What a service that looks at the content of a file alone finds in it, and
\* the diagnostics the server builds from that for the snapshot that
\* notification m stored for its document: text m in the language of the
\* document.
FindingsIn(content) == [file_id |-> None, error |-> None, content |-> content]
DiagnosticsOfSnapshot(m) ==
    build_diagnostics(FindingsIn(m), m, Some(LanguageOf(handlers[m].uri)))

\* The publications the batch tasks have made for a document.
TaskPublications(u) == {i \in 1..Len(published[u]) : published[u][i].src = "task"}

\* The place of a document in the request of a task, 0 if it is not in it.
PlaceInRequest(n, u) ==
    IF \E i \in 1..Len(http_log) : http_log[i].task = n /\ \E j \in 1..Len(http_log[i].files) : http_log[i].files[j].file_id = Some(u)
    THEN LET i == CHOOSE i \in 1..Len(http_log) : http_log[i].task = n
         IN  CHOOSE j \in 1..Len(http_log[i].files) : http_log[i].files[j].file_id = Some(u)
    ELSE 0

FilesInRequest(n) ==
    IF \E i \in 1..Len(http_log) : http_log[i].task = n
    THEN Len(http_log[CHOOSE i \in 1..Len(http_log) : http_log[i].task = n].files)
    ELSE 0

\* C24: with a deterministic service, what a batch task publishes for a
\* document is determined by the snapshot it analysed: the diagnostics built
\* from the service's findings on that snapshot, under the version of that
\* snapshot.  So two runs on the same snapshot publish the same diagnostics
\* and the same version, whatever the order of the dirty set and whatever
\* other documents are in the batch.
C24_DeterministicDiagnostics ==
    \A u \in BurstDocs : \A i \in 1..Len(published[u]) :
        published[u][i].src = "task" =>
            /\ \E m \in Arrived :
                  /\ handlers[m].uri = u
                  /\ handlers[m].kind = "didOpen"
                  /\ published[u][i].diagnostics = DiagnosticsOfSnapshot(m)
                  /\ published[u][i].version = Some(handlers[m].version)
            /\ \A j \in 1..(i - 1) :
                  ( /\ published[u][j].src = "task"
                    /\ published[u][i].diagnostics[1].text = published[u][j].diagnostics[1].text )
                      => /\ published[u][i].diagnostics = published[u][j].diagnostics
                         /\ published[u][i].version = published[u][j].version

\* package.json was analysed twice without an edit in between, once as the
\* second file of a request of two files and once alone, and the two
\* publications are the same.
C24_Witness ==
    \E i, j \in TaskPublications(PkgJson) :
        /\ i < j
        /\ published[PkgJson][i].id # published[PkgJson][j].id
        /\ PlaceInRequest(published[PkgJson][i].id, PkgJson) = 2
        /\ FilesInRequest(published[PkgJson][j].id) = 1
        /\ published[PkgJson][i].diagnostics = published[PkgJson][j].diagnostics
        /\ published[PkgJson][i].version = published[PkgJson][j].version


(***************************************************************************)
(* C25.  apply_content_changes.                                            *)
(***************************************************************************)
\* The points of a text, each given by the number of characters before it,
\* that lie at an LSP position: on the line of that number, with that many
\* UTF-16 code units of the line before them.
PointsAt(text, position) ==
    {k \in 0..Len(text) :
        /\ Cardinality({i \in 1..k : text[i] = "\n"}) = position.line
        /\ Cardinality({i \in 1..k : \A j \in i..k : text[j] # "\n"})
             + Cardinality({i \in 1..k : text[i] = "U+1F680" /\ \A j \in i..k : text[j] # "\n"})
               = position.character}

PointAt(text, position) == CHOOSE k \in PointsAt(text, position) : TRUE

\* A change the text accepts: a full replacement, or an edit whose two
\* positions lie in the text, the start not after the end.
ValidChange(text, change) ==
    \/ change.range = None
    \/ /\ PointsAt(text, Unwrap(change.range).start) # {}
       /\ PointsAt(text, Unwrap(change.range).end) # {}
       /\ PointAt(text, Unwrap(change.range).start) <= PointAt(text, Unwrap(change.range).end)

\* The text after a valid change: the text of the change in place of the
\* characters between the two positions, or in place of the whole text.
Changed(text, change) ==
    IF change.range = None THEN change.text
    ELSE SubSeq(text, 1, PointAt(text, Unwrap(change.range).start))
            \o change.text
            \o SubSeq(text, PointAt(text, Unwrap(change.range).end) + 1, Len(text))

\* The text after the first n changes of a list, each valid on the text the
\* one before it left; None if one of them is not.
RECURSIVE ChangedBy(_, _, _)
ChangedBy(text, changes, n) ==
    IF n = 0 THEN Some(text)
    ELSE IF ~IsSome(ChangedBy(text, changes, n - 1)) THEN None
    ELSE IF ~ValidChange(Unwrap(ChangedBy(text, changes, n - 1)), changes[n]) THEN None
    ELSE Some(Changed(Unwrap(ChangedBy(text, changes, n - 1)), changes[n]))

\* C25: apply_content_changes applies the changes in the order of the list,
\* each to the text the one before it left: an edit of a valid range puts
\* the text of the change in place of the characters between its start and
\* its end and keeps what stands before and after, and a change without a
\* range puts its text in place of the whole text; the call succeeds
\* exactly when every change is valid on the text it meets.
C25_ChangesAppliedInOrder ==
    (input.fn = "apply_content_changes" /\ IsSome(output)) =>
        /\ Unwrap(output).ok = IsSome(ChangedBy(input.text, input.changes, Len(input.changes)))
        /\ Unwrap(output).ok =>
              Unwrap(output).text
                  = Unwrap(ChangedBy(input.text, input.changes, Len(input.changes)))

\* Two edits of the text of the tests: the first puts 5.0.0 in place of the
\* version on the second line, the second puts 5.0.0 in place of the first
\* character of the text the first one left.
C25_Witness ==
    /\ input.fn = "apply_content_changes"
    /\ IsSome(output)
    /\ Unwrap(output).ok
    /\ Len(input.changes) = 2
    /\ input.changes[1].range = Some([start |-> [line |-> 1, character |-> 7],
                                      end |-> [line |-> 1, character |-> 14]])
    /\ input.changes[2].range = Some([start |-> [line |-> 0, character |-> 0],
                                      end |-> [line |-> 0, character |-> 1]])
    /\ Unwrap(output).text
         = <<"5",".","0",".","0","e","p","e","n","d","e","n","c","i","e","s",":","\n","l","o","d","a","s","h","=","5",".","0",".","0","\n">>


(***************************************************************************)
(* C26.  The text did_change stores when its changes do not apply.         *)
(***************************************************************************)
\* The changes of a list that replace the whole text.
FullTextChanges(changes) == {i \in 1..Len(changes) : changes[i].range = None}

\* C26: when the changes of a didChange do not apply, the text stored is the
\* text of the last change of the list that has no range, and the text
\* stored before when no change of the list is without a range.
C26_FallbackToLastFullText ==
    ( /\ input.fn = "did_change"
      /\ IsSome(output)
      /\ ~IsSome(ChangedBy(input.text, input.changes, Len(input.changes))) ) =>
        Unwrap(output) =
            IF FullTextChanges(input.changes) = {} THEN input.text
            ELSE input.changes[Max(FullTextChanges(input.changes))].text


(***************************************************************************)
(* C27.  The workspace key.                                                *)
(***************************************************************************)
\* The key of a candidate: what stands before its last `/` when that is not
\* empty, the candidate otherwise.
IsKeyOf(key, candidate) ==
    IF \E i \in 2..Len(candidate) :
            candidate[i] = "/" /\ \A j \in (i + 1)..Len(candidate) : candidate[j] # "/"
    THEN \E i \in 2..Len(candidate) :
            /\ candidate[i] = "/"
            /\ \A j \in (i + 1)..Len(candidate) : candidate[j] # "/"
            /\ key = SubSeq(candidate, 1, i - 1)
    ELSE key = candidate

\* C27: the workspace key is computed from the workspace path whenever that
\* is given and not empty, and from the path of the URI otherwise: it is
\* what stands before the last `/` of that candidate when that is not
\* empty, and the candidate otherwise.
C27_KeyOfNonEmptyPath ==
    (input.fn = "workspace_key_for_path" /\ IsSome(output)) =>
        IsKeyOf(Unwrap(output),
                IF IsSome(input.workspace_path) /\ Unwrap(input.workspace_path) # <<>>
                THEN Unwrap(input.workspace_path)
                ELSE UriPath(input.uri))

\* The key of a manifest in a directory below /w is the path of that
\* directory.
C27_Witness ==
    /\ input.fn = "workspace_key_for_path"
    /\ input.workspace_path = Some(UriPath(NestedPkgJson))
    /\ input.uri = NestedPkgJson
    /\ output = Some(<<"/","w","/","s","u","b">>)


(***************************************************************************)
(* C28.  One live task for a workspace key.                                *)
(***************************************************************************)
\* The tasks of a workspace key that can still run.
LiveTasks(k) == {n \in EventIds : Live(tasks[n]) /\ tasks[n].key = Some(k)}

\* The schedule_analysis call that spawned task n is about to record its
\* handle (between tokio::spawn and pending.insert, with no suspension).
BeingRecorded(n) == handlers[n].pc = "spawned"

\* C28: every task of a workspace key that is asleep or executing is the
\* task whose handle is recorded under the key in the pending map, or is
\* being recorded there by the call that spawned it; so a key has at most
\* one such task.
C28_LiveTaskIsPending ==
    \A k \in KEYS :
        /\ \A n \in LiveTasks(k) : pending[k] = Some(n) \/ BeingRecorded(n)
        /\ Cardinality(LiveTasks(k)) <= 1


(***************************************************************************)
(* C29.  The maps at rest.                                                 *)
(***************************************************************************)
\* Every notification that arrived has been handled to its end and no task
\* is asleep or executing.
Quiescent ==
    /\ \A n \in EventIds : handlers[n].pc \in {"none", "done"}
    /\ \A n \in EventIds : ~Live(tasks[n])

\* C29: once every task has finished or been cancelled and no notification
\* is outstanding, the pending map has no entry and no workspace key has a
\* dirty set.
C29_QuiescentMapsEmpty ==
    Quiescent =>
        /\ \A k \in KEYS : pending[k] = None
        /\ \A k \in KEYS : dirty_by_workspace[k] = None


(***************************************************************************)
(* C30.  The pairing of results and request files.                         *)
(***************************************************************************)
\* Every result of a response carries a file id that is not empty.
EveryResultNamesItsFile(results) ==
    \A i \in 1..Len(results) : IsSome(results[i].file_id) /\ Unwrap(results[i].file_id) # ""

\* Task n has gone through its batch without a failure.
BatchSucceeded(n) ==
    /\ HasSent(n)
    /\ tasks[n].pc \in {"fin", "done"}
    /\ tasks[n].err = ""

\* C30: a task that holds a response of the right cardinality pairs its
\* results with the request files by file id when every result has a file
\* id that is not empty, and by position otherwise; and when its batch has
\* succeeded, the document of every file of its request has received
\* exactly one publication from it.
C30_PairingAndOnePublication ==
    \A n \in EventIds :
        /\ tasks[n].results # <<>> =>
              (tasks[n].by_id = EveryResultNamesItsFile(tasks[n].results))
        /\ BatchSucceeded(n) =>
              \A i \in 1..Len(http_log) : http_log[i].task = n =>
                  \A j \in 1..Len(http_log[i].files) :
                      Cardinality(PublicationsOf(published, n,
                                                 Unwrap(http_log[i].files[j].file_id))) = 1


(***************************************************************************)
(* C31.  The request built at dispatch contains exactly one file per       *)
(* drained URI whose snapshot still exists and whose ecosystem is not      *)
(* unknown, with file_id equal to the URI and file_content equal to the    *)
(* snapshot text at drain time; the drain removes the whole dirty set of   *)
(* the key in one step, and no request is sent when the drained set is     *)
(* empty or no drained URI qualifies.  The drain is the removal of the set *)
(* followed by the lookup of its members in the document store, with no    *)
(* suspension in between.  As a property of the steps: a task that leaves  *)
(* its sleep empties the entry of its key and holds every member of the    *)
(* set once; each lookup adds the stored snapshot of the next member if it *)
(* qualifies; the task ends without a request when it holds no snapshot    *)
(* after the last lookup; it keeps its snapshots until it sends; and every *)
(* request sent lists them, one file each, in order.                       *)
(***************************************************************************)
\* Task n wakes from its sleep and removes the dirty set in this step.
Drains(n) == tasks[n].pc = "sleep" /\ tasks'[n].pc \in {"reading", "fin"}

\* Task n looks the next drained URI up in this step.
LooksUp(n) ==
    /\ tasks[n].pc = "reading"
    /\ tasks'[n].pc # "reading" \/ tasks'[n].uris # tasks[n].uris

\* The drained URIs that go into the request: stored, of a known ecosystem.
Qualifying(uris) ==
    {u \in uris : IsSome(documents[u]) /\ Unwrap(documents[u]).ecosystem # "unknown"}

\* A request is sent in this step.
Sends == Len(http_log') = Len(http_log) + 1

DrainTakesWholeSet(n) ==
    LET key == Unwrap(tasks[n].key)
        members == DirtySet(dirty_by_workspace, key)
        uris == tasks'[n].uris
    IN  /\ dirty_by_workspace'[key] = None
        /\ Len(uris) = Cardinality(members)
        /\ {uris[i] : i \in 1..Len(uris)} = members
        /\ tasks'[n].snaps = <<>>
        /\ (members = {}) = (tasks'[n].pc = "fin")
        /\ http_log' = http_log

LookupTakesQualifying(n) ==
    LET t == tasks[n]
        uri == Head(t.uris)
        taken == IF Qualifying({uri}) = {uri}
                 THEN Append(t.snaps, Unwrap(documents[uri])) ELSE t.snaps
    IN  /\ (tasks'[n].pc = "reading") = (Len(t.uris) > 1)
        /\ tasks'[n].pc = "reading" => tasks'[n].uris = Tail(t.uris)
        /\ tasks'[n].pc \in {"reading", "drained"} => tasks'[n].snaps = taken
        /\ Len(t.uris) = 1 => (tasks'[n].pc = "fin") = (taken = <<>>)
        /\ http_log' = http_log

RequestListsDrained ==
    LET request == http_log'[Len(http_log')]
        t == tasks[request.task]
    IN  /\ SubSeq(http_log', 1, Len(http_log)) = http_log
        /\ t.pc = "drained"
        /\ t.snaps # <<>>
        /\ Len(request.files) = Len(t.snaps)
        /\ \A i \in 1..Len(t.snaps) :
                /\ request.files[i].file_id = Some(t.snaps[i].uri)
                /\ request.files[i].file_content = t.snaps[i].text
                /\ request.files[i].ecosystem = t.snaps[i].ecosystem
        /\ \A i, j \in 1..Len(t.snaps) : t.snaps[i].uri = t.snaps[j].uri => i = j

C31_RequestOfDrainedSet ==
    [][/\ \A n \in EventIds : Drains(n) => DrainTakesWholeSet(n)
       /\ \A n \in EventIds : LooksUp(n) => LookupTakesQualifying(n)
       /\ \A n \in EventIds : tasks[n].pc = "drained" /\ tasks'[n].pc \in {"drained", "http"}
                                    => tasks'[n].snaps = tasks[n].snaps
       /\ Len(http_log') # Len(http_log) => Sends /\ RequestListsDrained]_vars

\* A request with the two manifests of workspace /w has been sent, and a
\* task that found nothing to send has finished without a request.
C31_Witness ==
    /\ \E i \in 1..Len(http_log) : Len(http_log[i].files) = 2
    /\ \E n \in EventIds : tasks[n].pc = "done" /\ ~HasSent(n)


(***************************************************************************)
(* C37.  In every reachable state, every URI in the dirty set of a         *)
(* workspace key k has a snapshot in the document store whose ecosystem is *)
(* not unknown and whose workspace key is k, and no dirty set stored in    *)
(* the map is empty.  The states inside a remove_document call, which      *)
(* removes the snapshot before it takes the URI out of the dirty set and   *)
(* leaves the set it emptied in the map until it removes it, are left out: *)
(* the property is stated for the states in which no such call is under    *)
(* way.                                                                    *)
(***************************************************************************)
\* The dirty set of key k, if the map has one, has members, and each of
\* them is stored with a known ecosystem and this workspace key.
NamesStoredDocuments(k) ==
    IsSome(dirty_by_workspace[k]) =>
        /\ Unwrap(dirty_by_workspace[k]) # {}
        /\ \A u \in Unwrap(dirty_by_workspace[k]) :
                /\ IsSome(documents[u])
                /\ Unwrap(documents[u]).ecosystem # "unknown"
                /\ KeyOfSnapshot(Unwrap(documents[u])) = k

\* A remove_document call has removed its snapshot and has not yet brought
\* the dirty map up to date.
RemoveDocumentUnderWay ==
    \E n \in EventIds : handlers[n].pc \in {"rm_cache", "rm_dirty", "rm_set"}

C37_DirtyNamesStoredDocuments ==
    ~RemoveDocumentUnderWay => \A k \in KEYS : NamesStoredDocuments(k)


(***************************************************************************)
(* C32.  Any two open documents whose URIs have the same parent directory  *)
(* are assigned the same workspace key by the server, so that edits to     *)
(* sibling manifests within one debounce window are sent in a single       *)
(* batch: when the notifications of a session are on two documents of one  *)
(* directory and each arrived less than DebounceMs after the one before,   *)
(* the snapshots of the two have the same workspace key and at no time     *)
(* have two requests been sent for it.                                     *)
(***************************************************************************)
\* The parent directory of the document: its path up to the last `/`.
ParentDirectory(u) == SubSeq(UriPath(u), 1, Max(SlashPositions(UriPath(u))))

\* Notifications a and b are edits to two manifests of one directory.
SiblingEdits(a, b) ==
    /\ handlers[a].uri # handlers[b].uri
    /\ ParentDirectory(handlers[a].uri) = ParentDirectory(handlers[b].uri)
    /\ \A m \in {a, b} :
          /\ handlers[m].kind \in {"didOpen", "didChange", "didSave"}
          /\ EcosystemOf(handlers[m].uri) # "unknown"

C32_SiblingsSentInOneBatch ==
    \A a, b \in Arrived :
        (SiblingEdits(a, b) /\ burst)
        => /\ \A m \in {a, b} :
                IsSome(documents[handlers[m].uri])
                => KeyOfSnapshot(Unwrap(documents[handlers[m].uri])) = KeyOfUri(handlers[a].uri)
           /\ KeyOfUri(handlers[a].uri) = KeyOfUri(handlers[b].uri)
           /\ Cardinality(RequestsFor(KeyOfUri(handlers[a].uri))) <= 1


(***************************************************************************)
(* C33.  Diagnostics and code actions resolve ranges with the same         *)
(* locator: for every text, ecosystem and package, the range anchoring a   *)
(* vulnerability diagnostic equals the range replaced by the quick-fix     *)
(* edit for that package (and is the default range when no edit is         *)
(* offered), in particular for a cargo dependency declared as an inline    *)
(* table, where both cover the version literal.                            *)
(***************************************************************************)
C33_DiagnosticAndEditShareRange ==
    (input.fn = "anchor" /\ IsSome(output)) =>
        LET anchored == Unwrap(output)
        IN  /\ IsSome(anchored.edit) => anchored.diagnostic = Unwrap(anchored.edit).range
            /\ ~IsSome(anchored.edit) => anchored.diagnostic = default_range
            /\ (input.family = "cargo" /\ input.declared
                    /\ ToLowercase(input.ecosystem) \in {<<"c","a","r","g","o">>, <<"r","u","s","t">>})
                  => CoveredText(input.text, anchored.diagnostic) = input.version


(***************************************************************************)
(* C34.  When a package is declared more than once in a manifest, the      *)
(* locator returns the range of the version literal of the first           *)
(* declaration in document order, also for cargo when the first            *)
(* declaration is an inline table and a later one a plain string.          *)
(***************************************************************************)
\* The range starts where the version literal of the first declaration
\* starts.
StartsAfter(text, range, before) ==
    position_to_offset_utf16(text, range.start) = Some(before)

C34_FirstDeclarationLocated ==
    (input.fn = "locate_first" /\ IsSome(output)) =>
        /\ LocatedVersion(input.text, Unwrap(output), input.version)
        /\ StartsAfter(input.text, Unwrap(Unwrap(output).range), input.before)
        /\ StartsAfter(input.text, Unwrap(Unwrap(output).action).range, input.before)


(***************************************************************************)
(* C35.  No enqueued URI is lost: if schedule_analysis enqueued a          *)
(* document of a known ecosystem that stays open, then, once the events    *)
(* have stopped and with a service that answers every request, a request   *)
(* with the document's latest text is eventually sent and a publication    *)
(* with its current version is eventually issued, also when the task that  *)
(* had drained the URI is cancelled by a later schedule_analysis for       *)
(* another document of the same workspace.  So from some time on, every    *)
(* stored document that was enqueued has been served.                      *)
(***************************************************************************)
\* schedule_analysis has enqueued the document.
Enqueued(u) == \E n \in EventIds : handlers[n].uri = u /\ IsSome(handlers[n].key)

\* A request with the stored text of the document has been sent, and a
\* task has published for it under the stored version.
Served(u) ==
    LET snapshot == Unwrap(documents[u])
    IN  /\ \E i \in 1..Len(http_log) : \E j \in 1..Len(http_log[i].files) :
                /\ http_log[i].files[j].file_id = Some(u)
                /\ http_log[i].files[j].file_content = snapshot.text
        /\ \E i \in 1..Len(published[u]) :
                /\ published[u][i].src = "task"
                /\ published[u][i].version = Some(snapshot.version)

C35_NoEnqueuedUriLost ==
    <>[](\A u \in BurstDocs : (IsSome(documents[u]) /\ Enqueued(u)) => Served(u))


(***************************************************************************)
(* C36.  No operation holds a lock or a reference into the document store  *)
(* across a suspension point, so an upsert or a remove on the document     *)
(* store never blocks on a suspended handler or task and the server cannot *)
(* deadlock; in particular schedule_analysis on a document of unknown      *)
(* ecosystem does not while it awaits the empty publication.  So no        *)
(* handler is ever parked in a write to the store.                         *)
(***************************************************************************)
C36_StoreNeverBlocks == \A n \in EventIds : handlers[n].pc # "blocked"

====
